---------------------------- MODULE Spec2Model ----------------------------
(***************************************************************************)
(* A model of the collation parsers of collation-nmf                       *)
(* (src/py/collation_parser.py): witness normalisation, the per-unit       *)
(* parsers of the TEI and VMR grammars, matrix assembly in read, and       *)
(* postprocess.                                                            *)
(*                                                                         *)
(* Python strings are modelled as sequences of one-character strings, so   *)
(* that strip, endswith, slicing, split and join are computed as Python    *)
(* computes them.  Python dicts are modelled as association lists          *)
(* (sequences of <<key, value>> pairs) in insertion order, because the     *)
(* code iterates over them.  Coefficients are exact multiples of 1/One.    *)
(***************************************************************************)
EXTENDS Integers, Sequences, FiniteSets, TLC

(***************************************************************************)
(* The state: one parser object, the read call in progress on it, and the *)
(* calls of get_base_wit on its own.                                       *)
(***************************************************************************)
VARIABLES
    \* which subclass the parser is: "tei" or "vmr"
    grammar,
    \* the settings given to __init__ (lines 19-25); the proportion is kept
    \* in hundredths
    min_extant_proportion, use_tfidf, ambiguous_rdg_prefix,
    subwitness_suffixes, trivial_reading_types, ignored_reading_types,
    \* the fields the parser computes (lines 20, 27-31)
    min_extant, readings, witnesses, collation_matrix,
    fragmentary_witnesses, fragmentary_collation_matrix,
    \* read in progress: its position, its document, the number of units
    \* parsed so far and its local readings_by_witness
    pc, xml, n_parsed, readings_by_witness,
    \* the unit parsed last and what parse_app / parse_segment returned
    app, readings_by_witness_for_app,
    \* the raw matrix and its labels as read handed them to postprocess,
    \* and the column sums postprocess computed (line 42)
    raw, col_sums,
    \* what the TfidfTransformer was asked to do, in order
    tfidf_calls,
    \* get_base_wit on its own: the token it was first called with, what
    \* the calls returned, and whether a call is still running
    token, normalized, norm_pc,
    \* the number of calls of read on this parser so far
    n_reads,
    \* who constructs the parser: estimate_rank.py's main ("script") or
    \* any other code ("direct")
    caller

config_vars == <<grammar, min_extant_proportion, use_tfidf,
                 ambiguous_rdg_prefix, subwitness_suffixes,
                 trivial_reading_types, ignored_reading_types, caller>>
parser_vars == <<min_extant, readings, witnesses, collation_matrix,
                 fragmentary_witnesses, fragmentary_collation_matrix>>
read_vars == <<pc, xml, n_parsed, readings_by_witness, app,
               readings_by_witness_for_app, raw, col_sums, tfidf_calls,
               n_reads>>
norm_vars == <<token, normalized, norm_pc>>
vars == <<config_vars, parser_vars, read_vars, norm_vars>>

(***************************************************************************)
(* Bounds of the model.                                                    *)
(***************************************************************************)
\* Longest raw witness token drawn for normalisation.
MaxLen == 3

(***************************************************************************)
(* Python string primitives.                                               *)
(***************************************************************************)
\* An XML attribute read with get: None when the attribute is absent,
\* Some(s) when it is there with the string s.
None == << >>
Some(s) == <<s>>

\* s.endswith(suffix)
EndsWith(s, suffix) ==
    /\ Len(suffix) <= Len(s)
    /\ SubSeq(s, Len(s) - Len(suffix) + 1, Len(s)) = suffix

\* s.startswith(prefix)
StartsWith(s, prefix) ==
    /\ Len(prefix) <= Len(s)
    /\ SubSeq(s, 1, Len(prefix)) = prefix

\* s[:-n] for n >= 0.  Python reads s[:-0] as s[:0], the empty string.
SliceOffEnd(s, n) ==
    IF n = 0 THEN << >> ELSE SubSeq(s, 1, Len(s) - n)

\* The set of characters of a string.
Chars(s) == {s[i] : i \in 1..Len(s)}

\* s.lstrip(chars): drop leading characters that occur in chars.
RECURSIVE LStrip(_, _)
LStrip(s, chars) ==
    IF s # << >> /\ Head(s) \in Chars(chars) THEN LStrip(Tail(s), chars) ELSE s

\* s.rstrip(chars): drop trailing characters that occur in chars.
RECURSIVE RStrip(_, _)
RStrip(s, chars) ==
    IF s # << >> /\ s[Len(s)] \in Chars(chars)
    THEN RStrip(SubSeq(s, 1, Len(s) - 1), chars)
    ELSE s

\* s.strip(chars): chars is a SET of characters, removed from both ends.
Strip(s, chars) == RStrip(LStrip(s, chars), chars)

\* The characters Python's \d matches, as far as the model's alphabet goes.
Digit == {"0", "1", "2", "3", "4", "5", "6", "7", "8", "9"}

\* All strings over alphabet of length at most n.
StringsUpTo(alphabet, n) == UNION {[1..k -> alphabet] : k \in 0..n}

(***************************************************************************)
(* tei_collation_parser.get_base_wit                                       *)
(***************************************************************************)
\* One run of the for loop of lines 91-95: the first configured suffix the
\* siglum ends with is cut off and the loop is left (break).
RECURSIVE tei_strip_first_suffix(_, _)
tei_strip_first_suffix(base_wit, suffixes) ==
    IF suffixes = << >>
    THEN [suffix_found |-> FALSE, base_wit |-> base_wit]
    ELSE IF EndsWith(base_wit, Head(suffixes))
         THEN [suffix_found |-> TRUE,
               base_wit |-> SliceOffEnd(base_wit, Len(Head(suffixes)))]
         ELSE tei_strip_first_suffix(base_wit, Tail(suffixes))

\* The while (True) loop of lines 89-97.  Every turn that finds a non-empty
\* suffix shortens the siglum, so a run that has not left the loop after
\* fuel = Len + 2 turns never leaves it: halts = FALSE stands for that run.
RECURSIVE tei_suffix_loop(_, _, _)
tei_suffix_loop(base_wit, suffixes, fuel) ==
    LET turn == tei_strip_first_suffix(base_wit, suffixes) IN
    IF ~turn.suffix_found
    THEN [halts |-> TRUE, base_wit |-> base_wit]
    ELSE IF fuel = 0
         THEN [halts |-> FALSE, base_wit |-> turn.base_wit]
         ELSE tei_suffix_loop(turn.base_wit, suffixes, fuel - 1)

\* get_base_wit of the TEI grammar: strip("#"), then the suffix loop.
tei_get_base_wit(wit, suffixes) ==
    tei_suffix_loop(Strip(wit, <<"#">>), suffixes, Len(wit) + 2)

(***************************************************************************)
(* vmr_collation_parser.get_base_wit                                       *)
(***************************************************************************)
\* The for loop of lines 399-402: it has no break, so every configured
\* suffix, in order, is cut off the siglum as it stands at that point.
RECURSIVE vmr_strip_suffixes(_, _, _)
vmr_strip_suffixes(base_wit, suffixes, found) ==
    IF suffixes = << >>
    THEN [suffix_found |-> found, base_wit |-> base_wit]
    ELSE IF EndsWith(base_wit, Head(suffixes))
         THEN vmr_strip_suffixes(SliceOffEnd(base_wit, Len(Head(suffixes))),
                                 Tail(suffixes), TRUE)
         ELSE vmr_strip_suffixes(base_wit, Tail(suffixes), found)

\* fehler_pattern = f\d*$ (line 338), searched: the matched text, or << >>
\* when there is no match.  Only the last "f" can start a match, and it
\* does when nothing but digits follows it.
RECURSIVE fehler_search(_)
fehler_search(s) ==
    IF s = << >> THEN << >>
    ELSE LET rest == fehler_search(Tail(s)) IN
         IF rest # << >> THEN rest
         ELSE IF Head(s) = "f" /\ \A i \in 2..Len(s) : s[i] \in Digit
              THEN s
              ELSE << >>

\* The while (True) loop of lines 397-415, with the same fuel as above.
RECURSIVE vmr_suffix_loop(_, _, _)
vmr_suffix_loop(base_wit, suffixes, fuel) ==
    LET turn == vmr_strip_suffixes(base_wit, suffixes, FALSE)
        fehler_suffix == fehler_search(base_wit)
    IN  IF turn.suffix_found
        THEN IF fuel = 0
             THEN [halts |-> FALSE, base_wit |-> turn.base_wit]
             ELSE vmr_suffix_loop(turn.base_wit, suffixes, fuel - 1)
        ELSE IF fehler_suffix # << >>
        THEN vmr_suffix_loop(SliceOffEnd(base_wit, Len(fehler_suffix)),
                             suffixes, fuel)
        ELSE IF EndsWith(base_wit, <<"V">>)
        THEN vmr_suffix_loop(SliceOffEnd(base_wit, 1), suffixes, fuel)
        ELSE [halts |-> TRUE, base_wit |-> base_wit]

\* get_base_wit of the VMR grammar.
vmr_get_base_wit(wit, suffixes) ==
    vmr_suffix_loop(wit, suffixes, Len(wit) + 2)


(***************************************************************************)
(* More Python string and dict primitives.                                 *)
(***************************************************************************)
\* sep.join(parts)
RECURSIVE Join(_, _)
Join(sep, parts) ==
    IF parts = << >> THEN << >>
    ELSE IF Len(parts) = 1 THEN Head(parts)
    ELSE Head(parts) \o sep \o Join(sep, Tail(parts))

\* s.split(sep) for a one-character separator: "" splits into [""].
RECURSIVE Split(_, _)
Split(s, sep) ==
    IF \A i \in 1..Len(s) : s[i] # sep THEN <<s>>
    ELSE LET i == CHOOSE k \in 1..Len(s) :
                      s[k] = sep /\ \A m \in 1..(k - 1) : s[m] # sep
         IN  <<SubSeq(s, 1, i - 1)>> \o Split(SubSeq(s, i + 1, Len(s)), sep)

\* key in d
DictHas(d, key) == \E i \in 1..Len(d) : d[i][1] = key

\* d[key], for a key of d
DictGet(d, key) == d[CHOOSE i \in 1..Len(d) : d[i][1] = key][2]

\* d[key] = value: a known key keeps its place, a new key goes last.
DictSet(d, key, value) ==
    IF DictHas(d, key)
    THEN [i \in 1..Len(d) |-> IF d[i][1] = key THEN <<key, value>> ELSE d[i]]
    ELSE Append(d, <<key, value>>)

\* list(d): the keys in insertion order.
DictKeys(d) == [i \in 1..Len(d) |-> d[i][1]]

\* d.get(key, 0)
DictGetOr0(d, key) == IF DictHas(d, key) THEN DictGet(d, key) ELSE 0

\* The coefficient 1.  Coefficients are kept as multiples of 1/One, which
\* is exact for 1/k as long as k divides One (k <= 4 here).
One == 3 * 4

(***************************************************************************)
(* tei_collation_parser.parse_app                                          *)
(*                                                                         *)
(* An <app/> element is [xml_id, n, rdgs]; a <rdg/> element is             *)
(* [type, n, text, wit], where type, n and wit are attributes (None when   *)
(* absent), text is what serialize returns for the element and wit is the  *)
(* attribute already split at whitespace.                                  *)
(***************************************************************************)
\* Lines 198-202: the unit's xml:id, else its n, else "".
tei_app_id(unit) ==
    IF unit.xml_id # None THEN unit.xml_id[1]
    ELSE IF unit.n # None THEN unit.n[1]
    ELSE << >>

\* Lines 208-210 and 225-227: a reading without a type has type "".
tei_rdg_type(rdg) == IF rdg.type = None THEN "" ELSE rdg.type[1]

\* Lines 214-216 and 233-235: " ".join([app_id, rdg_n, rdg_text]).
tei_rdg_label(app_id, rdg) == Join(<<" ">>, <<app_id, rdg.n[1], rdg.text>>)

\* A variant of tei_first_pass that ends at the first ambiguous reading.
RECURSIVE tei_first_pass_until_ambiguous(_, _, _)
tei_first_pass_until_ambiguous(app_id, rdgs, st) ==
    IF rdgs = << >> THEN st
    ELSE LET rdg == Head(rdgs)
             rdg_type == tei_rdg_type(rdg)
         IN  IF \/ rdg_type \in ignored_reading_types
                \/ rdg_type \in trivial_reading_types
             THEN tei_first_pass_until_ambiguous(app_id, Tail(rdgs), st)
             ELSE IF rdg.n = None
             THEN [st EXCEPT !.raised = TRUE]
             ELSE IF rdg_type # "ambiguous"
             THEN tei_first_pass_until_ambiguous(app_id, Tail(rdgs),
                      [st EXCEPT
                          !.readings_by_number =
                              DictSet(@, rdg.n[1], tei_rdg_label(app_id, rdg)),
                          !.readings = Append(@, tei_rdg_label(app_id, rdg))])
             ELSE st

\* The first loop, lines 207-221, over the readings left to visit.  st is
\* [readings, readings_by_number, raised]; join raises a TypeError when the
\* reading has no n, and the loop ends there.
RECURSIVE tei_first_pass(_, _, _)
tei_first_pass(app_id, rdgs, st) ==
    IF rdgs = << >> THEN st
    ELSE LET rdg == Head(rdgs)
             rdg_type == tei_rdg_type(rdg)
         IN  IF \/ rdg_type \in ignored_reading_types
                \/ rdg_type \in trivial_reading_types
             THEN tei_first_pass(app_id, Tail(rdgs), st)
             ELSE IF rdg.n = None
             THEN [st EXCEPT !.raised = TRUE]
             ELSE IF rdg_type # "ambiguous"
             THEN tei_first_pass(app_id, Tail(rdgs),
                      [st EXCEPT
                          !.readings_by_number =
                              DictSet(@, rdg.n[1], tei_rdg_label(app_id, rdg)),
                          !.readings = Append(@, tei_rdg_label(app_id, rdg))])
             ELSE tei_first_pass(app_id, Tail(rdgs), st)

\* A variant of possible_readings that stops at the first possible reading
\* number that is a key of readings_by_number.
possible_readings_first(numbers, readings_by_number, rdg_coefficients) ==
    LET known == {i \in 1..Len(numbers) :
                     DictHas(readings_by_number, numbers[i])}
    IN  IF known = {} THEN rdg_coefficients
        ELSE DictSet(rdg_coefficients,
                     DictGet(readings_by_number,
                             numbers[CHOOSE i \in known :
                                         \A k \in known : i <= k]),
                     One)

\* Lines 243-245 (and 486-488): every possible reading number that is a key
\* of readings_by_number puts its label into rdg_coefficients with 1.
RECURSIVE possible_readings(_, _, _)
possible_readings(numbers, readings_by_number, rdg_coefficients) ==
    IF numbers = << >> THEN rdg_coefficients
    ELSE possible_readings(Tail(numbers), readings_by_number,
             IF DictHas(readings_by_number, Head(numbers))
             THEN DictSet(rdg_coefficients,
                          DictGet(readings_by_number, Head(numbers)), One)
             ELSE rdg_coefficients)

\* A variant of normalize_coefficients that leaves out the division: every
\* label keeps the 1 it was given.
normalize_coefficients_unsplit(rdg_coefficients) == rdg_coefficients

\* Lines 251-252 (and 494-495): every coefficient becomes 1 / len.
normalize_coefficients(rdg_coefficients) ==
    [i \in 1..Len(rdg_coefficients) |->
        <<rdg_coefficients[i][1], One \div Len(rdg_coefficients)>>]

\* Lines 266-269 (and 516-519): add the reading's coefficients to the
\* witness's own, label by label.
RECURSIVE add_coefficients(_, _)
add_coefficients(base_wit_coefficients, rdg_coefficients) ==
    IF rdg_coefficients = << >> THEN base_wit_coefficients
    ELSE LET label == Head(rdg_coefficients)[1] IN
         add_coefficients(
             DictSet(base_wit_coefficients, label,
                     DictGetOr0(base_wit_coefficients, label)
                         + Head(rdg_coefficients)[2]),
             Tail(rdg_coefficients))

\* A variant of support that makes no entry for a witness when there are
\* no coefficients to add.
support_unless_empty(by_witness, wit_key, rdg_coefficients) ==
    IF rdg_coefficients = << >> THEN by_witness
    ELSE LET known == IF DictHas(by_witness, wit_key) THEN by_witness
                      ELSE DictSet(by_witness, wit_key, << >>)
         IN  DictSet(known, wit_key,
                     add_coefficients(DictGet(known, wit_key),
                                      rdg_coefficients))

\* Lines 262-270 (and 512-520) for one base witness: make its entry if it
\* has none, then add the coefficients.
support(by_witness, wit_key, rdg_coefficients) ==
    LET known == IF DictHas(by_witness, wit_key) THEN by_witness
                 ELSE DictSet(by_witness, wit_key, << >>)
    IN  DictSet(known, wit_key,
                add_coefficients(DictGet(known, wit_key), rdg_coefficients))

\* Lines 258-270: the loop over the tokens of the wit attribute.
RECURSIVE tei_support_all(_, _, _)
tei_support_all(by_witness, wits, rdg_coefficients) ==
    IF wits = << >> THEN by_witness
    ELSE tei_support_all(
             support(by_witness,
                     tei_get_base_wit(Head(wits), subwitness_suffixes).base_wit,
                     rdg_coefficients),
             Tail(wits), rdg_coefficients)

\* Lines 239-254: the coefficients of a reading that is neither ignored nor
\* trivial.  An ambiguous reading that names no known reading gives << >>.
tei_rdg_coefficients(app_id, rdg, readings_by_number) ==
    IF tei_rdg_type(rdg) = "ambiguous"
    THEN LET possible_reading_numbers ==
                 Split(Strip(rdg.n[1], ambiguous_rdg_prefix), "/")
             found == possible_readings(possible_reading_numbers,
                                        readings_by_number, << >>)
         IN  normalize_coefficients(found)
    ELSE <<<<tei_rdg_label(app_id, rdg), One>>>>

\* A variant of skipped_in_second_pass that tests for a trivial type first,
\* so that a type both ignored and trivial is not skipped.
skipped_unless_trivial(rdg_type) ==
    rdg_type \in ignored_reading_types /\ rdg_type \notin trivial_reading_types

\* Lines 229-230 (and 472-473): the second loop skips a reading of an
\* ignored type before it does anything else with it.
skipped_in_second_pass(rdg_type) == rdg_type \in ignored_reading_types

\* A variant of trivial_rdg_coefficients that empties the dict, so that a
\* trivial reading hands out nothing.
trivial_rdg_coefficients_reset(rdg_coefficients) == << >>

\* Lines 223 and 232 (and 456 and 475): for a reading of a trivial type the
\* block that sets rdg_coefficients is not entered, and the dict stays as
\* the reading before left it.
trivial_rdg_coefficients(rdg_coefficients) == rdg_coefficients

\* The second loop, lines 223-270.  st is [rdg_coefficients,
\* readings_by_witness]: rdg_coefficients is set before the loop and again
\* only by a reading that is neither ignored nor trivial, so a trivial
\* reading hands out the coefficients the reading before it left there.
RECURSIVE tei_second_pass(_, _, _, _)
tei_second_pass(app_id, rdgs, readings_by_number, st) ==
    IF rdgs = << >> THEN st
    ELSE LET rdg == Head(rdgs)
             rdg_type == tei_rdg_type(rdg)
             is_trivial == rdg_type \in trivial_reading_types
             rdg_coefficients ==
                 IF is_trivial THEN trivial_rdg_coefficients(st.rdg_coefficients)
                 ELSE tei_rdg_coefficients(app_id, rdg, readings_by_number)
             unresolved == /\ ~is_trivial
                           /\ rdg_type = "ambiguous"
                           /\ rdg_coefficients = << >>
         IN  IF skipped_in_second_pass(rdg_type)
             THEN tei_second_pass(app_id, Tail(rdgs), readings_by_number, st)
             ELSE IF unresolved \/ rdg.wit = None
             THEN tei_second_pass(app_id, Tail(rdgs), readings_by_number,
                      [st EXCEPT !.rdg_coefficients = rdg_coefficients])
             ELSE tei_second_pass(app_id, Tail(rdgs), readings_by_number,
                      [rdg_coefficients |-> rdg_coefficients,
                       readings_by_witness |->
                           tei_support_all(st.readings_by_witness,
                                           rdg.wit[1], rdg_coefficients)])

\* parse_app(xml) called with self.readings = readings_before: the readings
\* list it leaves, the dict it returns, and whether it raised instead.
parse_app(unit, readings_before) ==
    LET app_id == tei_app_id(unit)
        first == tei_first_pass(app_id, unit.rdgs,
                     [readings |-> readings_before,
                      readings_by_number |-> << >>,
                      raised |-> FALSE])
        second == tei_second_pass(app_id, unit.rdgs, first.readings_by_number,
                      [rdg_coefficients |-> << >>,
                       readings_by_witness |-> << >>])
    IN  [readings |-> first.readings,
         raised |-> first.raised,
         readings_by_witness |->
             IF first.raised THEN << >> ELSE second.readings_by_witness]

(***************************************************************************)
(* Matrices.  A numpy matrix is [shape, a, idf]: shape = <<rows, columns>>,*)
(* a[<<i, j>>] the coefficient in multiples of 1/One, and idf the row      *)
(* factors a TfidfTransformer has multiplied in: << >> when none has, else *)
(* idf[i] = [n, df] stands for the factor ln(n / df) on row i, so the cell *)
(* (i, j) is worth a[<<i, j>>] * ln(n / df).                               *)
(***************************************************************************)
\* np.zeros(shape=(r, c))
Zeros(r, c) ==
    [shape |-> <<r, c>>, a |-> [p \in (1..r) \X (1..c) |-> 0], idf |-> << >>]

NRows(m) == m.shape[1]
NCols(m) == m.shape[2]

\* The sum of f[i] over i in 1..n.
RECURSIVE SumTo(_, _)
SumTo(f, n) == IF n = 0 THEN 0 ELSE f[n] + SumTo(f, n - 1)

\* A variant of ColSums that counts the non-zero cells of each column.
ColSums_count_nonzero(m) ==
    [j \in 1..NCols(m) |->
        One * Cardinality({i \in 1..NRows(m) : m.a[<<i, j>>] # 0})]

\* np.sum(m, axis=0) and np.sum(m, axis=1) of a matrix without row factors.
ColSums(m) ==
    [j \in 1..NCols(m) |-> SumTo([i \in 1..NRows(m) |-> m.a[<<i, j>>]], NRows(m))]
RowSums(m) ==
    [i \in 1..NRows(m) |-> SumTo([j \in 1..NCols(m) |-> m.a[<<i, j>>]], NCols(m))]

\* [k for k in range(n) if keep[k]], as indices from 1.
RECURSIVE IndsWhere(_, _)
IndsWhere(keep, n) ==
    IF n = 0 THEN << >>
    ELSE IF keep[n] THEN Append(IndsWhere(keep, n - 1), n)
    ELSE IndsWhere(keep, n - 1)

\* m[:, col_inds]
TakeCols(m, col_inds) ==
    [shape |-> <<NRows(m), Len(col_inds)>>,
     a |-> [p \in (1..NRows(m)) \X (1..Len(col_inds)) |->
               m.a[<<p[1], col_inds[p[2]]>>]],
     idf |-> m.idf]

\* m[row_inds, :]
TakeRows(m, row_inds) ==
    [shape |-> <<Len(row_inds), NCols(m)>>,
     a |-> [p \in (1..Len(row_inds)) \X (1..NCols(m)) |->
               m.a[<<row_inds[p[1]], p[2]>>]],
     idf |-> [i \in 1..(IF m.idf = << >> THEN 0 ELSE Len(row_inds)) |->
                 m.idf[row_inds[i]]]]

\* [xs[k] for k in inds]
TakeItems(xs, inds) == [k \in 1..Len(inds) |-> xs[inds[k]]]

(***************************************************************************)
(* read (lines 279-331 and 533-598): the steps both grammars share.        *)
(***************************************************************************)
\* int(x / 100): Python's int truncates towards zero.
IntOfHundredths(x) == IF x >= 0 THEN x \div 100 ELSE -((-x) \div 100)

\* Lines 291 and 557: int(self.min_extant_proportion * number of units).
min_extant_for(n_units) == IntOfHundredths(min_extant_proportion * n_units)

\* Lines 303-304 (569-570): a witness's coefficients for this unit are
\* written over the ones it has, label by label.
RECURSIVE set_coefficients(_, _)
set_coefficients(wit_coefficients, wit_coefficients_for_app) ==
    IF wit_coefficients_for_app = << >> THEN wit_coefficients
    ELSE set_coefficients(
             DictSet(wit_coefficients, Head(wit_coefficients_for_app)[1],
                     Head(wit_coefficients_for_app)[2]),
             Tail(wit_coefficients_for_app))

\* Lines 295-305 (561-571): the loop over the witnesses of one unit.  st is
\* [witnesses, readings_by_witness].
RECURSIVE merge_unit(_, _)
merge_unit(st, for_app) ==
    IF for_app = << >> THEN st
    ELSE LET wit_key == Head(for_app)[1]
             is_new == ~DictHas(st.readings_by_witness, wit_key)
             known == IF is_new
                      THEN DictSet(st.readings_by_witness, wit_key, << >>)
                      ELSE st.readings_by_witness
         IN  merge_unit(
                 [witnesses |-> IF is_new THEN Append(st.witnesses, wit_key)
                                ELSE st.witnesses,
                  readings_by_witness |->
                      DictSet(known, wit_key,
                              set_coefficients(DictGet(known, wit_key),
                                               Head(for_app)[2]))],
                 Tail(for_app))

\* Lines 309-310 (576-577): rows_by_reading[rdg], the LAST row with that
\* label, since a later row writes over an earlier one in the dict.
rows_by_reading(labels, rdg) ==
    CHOOSE i \in 1..Len(labels) :
        labels[i] = rdg /\ \A k \in (i + 1)..Len(labels) : labels[k] # rdg

\* Lines 311-312 (578-579): cols_by_witness[wit].
cols_by_witness(sigla, wit_key) ==
    CHOOSE j \in 1..Len(sigla) :
        sigla[j] = wit_key /\ \A k \in (j + 1)..Len(sigla) : sigla[k] # wit_key

\* Lines 313-320 (580-587): the zero matrix with the coefficients of every
\* witness of readings_by_witness written into its column.
assemble(labels, sigla, by_witness) ==
    [shape |-> <<Len(labels), Len(sigla)>>,
     a |-> [p \in (1..Len(labels)) \X (1..Len(sigla)) |->
               LET wit_key == sigla[p[2]]
                   rdg == labels[p[1]]
               IN  IF /\ DictHas(by_witness, wit_key)
                      /\ DictHas(DictGet(by_witness, wit_key), rdg)
                      /\ rows_by_reading(labels, rdg) = p[1]
                      /\ cols_by_witness(sigla, wit_key) = p[2]
                   THEN DictGet(DictGet(by_witness, wit_key), rdg)
                   ELSE 0],
     idf |-> << >>]

(***************************************************************************)
(* collation_parser.postprocess (lines 37-78)                              *)
(***************************************************************************)
\* A variant of sufficient_col_inds that leaves out the columns whose sum
\* equals min_extant.
sufficient_col_inds_strict(sums, threshold) ==
    IndsWhere([j \in 1..Len(sums) |-> sums[j] > threshold * One], Len(sums))

\* Line 44: the columns whose sum reaches min_extant.
sufficient_col_inds(sums, threshold) ==
    IndsWhere([j \in 1..Len(sums) |-> sums[j] >= threshold * One], Len(sums))

\* A variant of fragmentary_col_inds that takes in the columns whose sum
\* equals min_extant.
fragmentary_col_inds_inclusive(sums, threshold) ==
    IndsWhere([j \in 1..Len(sums) |-> sums[j] <= threshold * One], Len(sums))

\* Line 45: the columns whose sum stays below min_extant.
fragmentary_col_inds(sums, threshold) ==
    IndsWhere([j \in 1..Len(sums) |-> sums[j] < threshold * One], Len(sums))

\* A variant of preserved_row_inds that keeps every row.
preserved_row_inds_all(primary) ==
    IndsWhere([i \in 1..NRows(primary) |-> RowSums(primary)[i] >= 0],
              NRows(primary))

\* Lines 53-54: the rows of the primary matrix with a positive sum.
preserved_row_inds(primary) ==
    IndsWhere([i \in 1..NRows(primary) |-> RowSums(primary)[i] > 0],
              NRows(primary))

\* A variant of prune_fragmentary that leaves the fragmentary matrix with
\* all its rows.
prune_fragmentary_skipped(fragmentary, row_inds) == fragmentary

\* Line 58: the fragmentary matrix keeps the rows the primary matrix keeps.
prune_fragmentary(fragmentary, row_inds) == TakeRows(fragmentary, row_inds)

\* Lines 42-58: the split of the columns and the pruning of the rows.
split_and_prune(m, sigla, labels, threshold) ==
    LET sums == ColSums(m)
        sufficient == sufficient_col_inds(sums, threshold)
        fragmentary == fragmentary_col_inds(sums, threshold)
        primary == TakeCols(m, sufficient)
        row_inds == preserved_row_inds(primary)
    IN  [col_sums |-> sums,
         witnesses |-> TakeItems(sigla, sufficient),
         fragmentary_witnesses |-> TakeItems(sigla, fragmentary),
         readings |-> TakeItems(labels, row_inds),
         collation_matrix |-> TakeRows(primary, row_inds),
         fragmentary_collation_matrix |->
             prune_fragmentary(TakeCols(m, fragmentary), row_inds)]

\* scikit-learn refuses (ValueError) an array with no samples or no
\* features; the transformer is given the transposed matrix, so samples
\* are witnesses (columns) and features are readings (rows).
sklearn_refuses(m) == NRows(m) = 0 \/ NCols(m) = 0

\* Lines 67 and 69: fit with smooth_idf=False gives idf_[i] = ln(n / df) + 1,
\* n the number of columns and df the number of non-zero cells of row i.
\* A factor [n, df, plus] stands for ln(n / df) + plus.
sklearn_idf(m) ==
    [i \in 1..NRows(m) |->
        [n |-> NCols(m),
         df |-> Cardinality({j \in 1..NCols(m) : m.a[<<i, j>>] # 0}),
         plus |-> 1]]

\* A variant of tfidf_fit that leaves idf_ as fit set it.
tfidf_fit_unadjusted(m) == sklearn_idf(m)

\* A variant of fit_input that fits on the fragmentary matrix.
fit_input_fragmentary(split) == split.fragmentary_collation_matrix

\* Line 69: what the transformer is fitted on.
fit_input(split) == split.collation_matrix

\* Lines 69-70: fit, then idf_ - 1: the factor of row i is ln(n / df).
tfidf_fit(m) ==
    [i \in 1..NRows(m) |-> [sklearn_idf(m)[i] EXCEPT !.plus = @ - 1]]

\* Lines 71 and 73: transform with norm=None multiplies row i by idf_[i].
tfidf_transform(m, idf) == [m EXCEPT !.idf = idf]

\* Line 68: the guard of the fit.
fit_guard(m) == m.shape # <<0, 0>>

\* Line 72: the guard of the transform of the fragmentary matrix.
fragmentary_guard(m) == m.shape # <<0, 0>>

\* Lines 63-73.  split is what lines 42-58 left; the result adds what the
\* transformer was asked to do and whether a call raised.
reweight(split) ==
    LET primary == split.collation_matrix
        fragmentary == split.fragmentary_collation_matrix
        idf == tfidf_fit(fit_input(split))
        done == [collation_matrix |-> primary,
                 fragmentary_collation_matrix |-> fragmentary,
                 tfidf_calls |-> << >>,
                 raised |-> FALSE]
    IN  IF ~fit_guard(primary) THEN done
        ELSE IF sklearn_refuses(primary)
        THEN [done EXCEPT !.tfidf_calls = <<"fit primary">>,
                          !.raised = TRUE]
        ELSE IF ~fragmentary_guard(fragmentary)
        THEN [done EXCEPT
                 !.collation_matrix = tfidf_transform(primary, idf),
                 !.tfidf_calls = <<"fit primary", "transform primary">>]
        ELSE IF sklearn_refuses(fragmentary)
        THEN [done EXCEPT
                 !.collation_matrix = tfidf_transform(primary, idf),
                 !.tfidf_calls = <<"fit primary", "transform primary",
                                   "transform fragmentary">>,
                 !.raised = TRUE]
        ELSE [done EXCEPT
                 !.collation_matrix = tfidf_transform(primary, idf),
                 !.fragmentary_collation_matrix =
                     tfidf_transform(fragmentary, idf),
                 !.tfidf_calls = <<"fit primary", "transform primary",
                                   "transform fragmentary">>]

\* postprocess as a whole.
postprocess(m, sigla, labels, threshold) ==
    LET split == split_and_prune(m, sigla, labels, threshold)
        weighted == IF use_tfidf THEN reweight(split)
                    ELSE [collation_matrix |-> split.collation_matrix,
                          fragmentary_collation_matrix |->
                              split.fragmentary_collation_matrix,
                          tfidf_calls |-> << >>,
                          raised |-> FALSE]
    IN  [col_sums |-> split.col_sums,
         witnesses |-> split.witnesses,
         fragmentary_witnesses |-> split.fragmentary_witnesses,
         readings |-> split.readings,
         collation_matrix |-> weighted.collation_matrix,
         fragmentary_collation_matrix |-> weighted.fragmentary_collation_matrix,
         tfidf_calls |-> weighted.tfidf_calls,
         raised |-> weighted.raised]

(***************************************************************************)
(* vmr_collation_parser: the witness string helpers (lines 337-389).       *)
(***************************************************************************)
\* s with every character of the set chars left out.
RECURSIVE WithoutChars(_, _)
WithoutChars(s, chars) ==
    IF s = << >> THEN << >>
    ELSE IF Head(s) \in chars THEN WithoutChars(Tail(s), chars)
    ELSE <<Head(s)>> \o WithoutChars(Tail(s), chars)

\* s.replace(old, new) for a non-empty old: left to right, not overlapping.
RECURSIVE Replace(_, _, _)
Replace(s, old, new) ==
    IF Len(s) < Len(old) THEN s
    ELSE IF StartsWith(s, old)
    THEN new \o Replace(SubSeq(s, Len(old) + 1, Len(s)), old, new)
    ELSE <<Head(s)>> \o Replace(Tail(s), old, new)

\* s.split(): the maximal runs of characters other than the blank.
RECURSIVE SplitBlanks(_)
SplitBlanks(s) ==
    LET t == LStrip(s, <<" ">>) IN
    IF t = << >> THEN << >>
    ELSE IF \A i \in 1..Len(t) : t[i] # " " THEN <<t>>
    ELSE LET i == CHOOSE k \in 1..Len(t) :
                      t[k] = " " /\ \A m \in 1..(k - 1) : t[m] # " "
         IN  <<SubSeq(t, 1, i - 1)>> \o SplitBlanks(SubSeq(t, i, Len(t)))

\* Lines 348-350.
remove_square_brackets(wit_str) == WithoutChars(wit_str, {"[", "]"})

\* Lines 355-357.
remove_angle_brackets(wit_str) == WithoutChars(wit_str, {">"})

\* A variant of manuscript_witness_pattern that wants the whole token to
\* match: ^[PL]*\d+$.
manuscript_witness_pattern_whole(s) ==
    LET rest == LStrip(s, <<"P", "L">>)
    IN  rest # << >> /\ \A i \in 1..Len(rest) : rest[i] \in Digit

\* manuscript_witness_pattern = ^[PL]*\d+ (line 337), matched at the start.
manuscript_witness_pattern(s) ==
    LET rest == LStrip(s, <<"P", "L">>) IN rest # << >> /\ Head(rest) \in Digit

\* Where the ")" of \(([^\(\)]*)\) is when the "(" is at position open:
\* the first parenthesis after open, if it is a closing one; else 0.
closing_paren(s, open) ==
    LET parens == {c \in (open + 1)..Len(s) : s[c] \in {"(", ")"}} IN
    IF parens = {} THEN 0
    ELSE LET c == CHOOSE c \in parens : \A d \in parens : c <= d
         IN  IF s[c] = ")" THEN c ELSE 0

\* The ends e of a match of (\S+)\( that starts at p: s[p..e] has no blank
\* and s[e + 1] opens a parenthesis that is closed as the pattern wants.
group_ends(s, p) ==
    {e \in p..(Len(s) - 2) :
        /\ \A i \in p..e : s[i] # " "
        /\ s[e + 1] = "("
        /\ closing_paren(s, e + 1) # 0}

\* witness_with_parentheses_pattern.findall (lines 364-365) from position
\* p on: \S+ is greedy, so the longest first group wins.
RECURSIVE parentheses_findall(_, _)
parentheses_findall(s, p) ==
    IF p > Len(s) THEN << >>
    ELSE IF group_ends(s, p) = {} THEN parentheses_findall(s, p + 1)
    ELSE LET e == CHOOSE e \in group_ends(s, p) :
                      \A d \in group_ends(s, p) : d <= e
             c == closing_paren(s, e + 1)
         IN  <<<<SubSeq(s, p, e), SubSeq(s, e + 2, c - 1)>>>>
                 \o parentheses_findall(s, c + 1)

\* Lines 369-372: the base siglum followed by each suffix in turn.
expanded_wits(base, suffixes) ==
    [k \in 1..Len(suffixes) |-> base \o suffixes[k]]

\* Lines 366-373: the loop over the matches.
RECURSIVE expand_matches(_, _)
expand_matches(expanded_wit_str, matches) ==
    IF matches = << >> THEN expanded_wit_str
    ELSE LET match == Head(matches)
             base == vmr_get_base_wit(match[1], subwitness_suffixes).base_wit
             suffixes == Split(WithoutChars(match[2], {" "}), ",")
         IN  expand_matches(
                 Replace(expanded_wit_str,
                         match[1] \o <<"(">> \o match[2] \o <<")">>,
                         Join(<<" ">>, expanded_wits(base, suffixes))),
                 Tail(matches))

\* Lines 362-374.
expand_parenthetical_suffixes(wit_str) ==
    expand_matches(wit_str, parentheses_findall(wit_str, 1))

\* Lines 379-389: the loop changes only its own variable siglum, so what
\* is returned is the sigla as they came, joined by single blanks.
remove_ms_mss_suffixes(wit_str) == Join(<<" ">>, SplitBlanks(wit_str))

\* Lines 501-506: the witnesses attribute made into tokens.
processed_witnesses(witnesses_attr) ==
    SplitBlanks(remove_ms_mss_suffixes(expand_parenthetical_suffixes(
        remove_angle_brackets(remove_square_brackets(witnesses_attr)))))

(***************************************************************************)
(* vmr_collation_parser.parse_segment                                      *)
(*                                                                         *)
(* A <segment/> element is [verse, wordsegs, rdgs]; a <segmentReading/>    *)
(* element is [label, reading, witnesses], all attributes (None when       *)
(* absent).                                                                *)
(***************************************************************************)
Lower == {"a", "b", "c", "d", "e", "f", "g", "h", "i", "j", "k", "l", "m",
          "n", "o", "p", "q", "r", "s", "t", "u", "v", "w", "x", "y", "z"}

\* ^[a-z]+X\d*$ for a letter X: orthographic_rdg_pattern with "o" and
\* defective_rdg_pattern with "f" (lines 339-340).
letters_mark_digits(s, mark) ==
    \E k \in 2..Len(s) :
        /\ s[k] = mark
        /\ \A i \in 1..(k - 1) : s[i] \in Lower
        /\ \A i \in (k + 1)..Len(s) : s[i] \in Digit

\* The diamond character (U+2666) that marks a label.
Diamond == "<diamond>"

\* Lines 434 and 460: the label without diamonds and surrounding blanks.
vmr_rdg_label(rdg) == Strip(WithoutChars(rdg.label[1], {Diamond}), <<" ">>)

\* Lines 433-444 and 459-470: the type is read off the label; a later test
\* that matches writes over an earlier one.
vmr_rdg_type(rdg_label) ==
    IF letters_mark_digits(rdg_label, "f") THEN "defective"
    ELSE IF letters_mark_digits(rdg_label, "o") THEN "orthographic"
    ELSE IF rdg_label = <<"z", "u">> THEN "overlap"
    ELSE IF rdg_label = <<"z", "w">> THEN "ambiguous"
    ELSE IF rdg_label = <<"z", "z">> THEN "lac"
    ELSE ""

\* Lines 449 and 478: " ".join([segment_id, rdg_label, rdg_text]).
vmr_rdg_id(segment_id, rdg) ==
    Join(<<" ">>, <<segment_id, vmr_rdg_label(rdg), rdg.reading[1]>>)

\* The first loop, lines 431-454.  A reading without a label raises an
\* AttributeError at line 434; one that is kept but has no reading
\* attribute raises a TypeError at line 449.
RECURSIVE vmr_first_pass(_, _, _)
vmr_first_pass(segment_id, rdgs, st) ==
    IF rdgs = << >> THEN st
    ELSE LET rdg == Head(rdgs) IN
         IF rdg.label = None THEN [st EXCEPT !.raised = TRUE]
         ELSE LET rdg_type == vmr_rdg_type(vmr_rdg_label(rdg)) IN
              IF \/ rdg_type \in ignored_reading_types
                 \/ rdg_type \in trivial_reading_types
              THEN vmr_first_pass(segment_id, Tail(rdgs), st)
              ELSE IF rdg.reading = None
              THEN [st EXCEPT !.raised = TRUE]
              ELSE IF rdg_type # "ambiguous"
              THEN vmr_first_pass(segment_id, Tail(rdgs),
                       [st EXCEPT
                           !.readings_by_number =
                               DictSet(@, vmr_rdg_label(rdg),
                                       vmr_rdg_id(segment_id, rdg)),
                           !.readings = Append(@, vmr_rdg_id(segment_id, rdg))])
              ELSE vmr_first_pass(segment_id, Tail(rdgs), st)

\* A variant of vmr_support_all that passes over a token that is no
\* manuscript siglum and goes on with the next one.
RECURSIVE vmr_support_all_skipping(_, _, _)
vmr_support_all_skipping(by_witness, wits, rdg_coefficients) ==
    IF wits = << >> THEN by_witness
    ELSE IF manuscript_witness_pattern(Head(wits))
    THEN vmr_support_all_skipping(
             support(by_witness,
                     vmr_get_base_wit(Head(wits), subwitness_suffixes).base_wit,
                     rdg_coefficients),
             Tail(wits), rdg_coefficients)
    ELSE vmr_support_all_skipping(by_witness, Tail(wits), rdg_coefficients)

\* Lines 506-524: the loop over the tokens, left at the first token that
\* is no manuscript siglum.
RECURSIVE vmr_support_all(_, _, _)
vmr_support_all(by_witness, wits, rdg_coefficients) ==
    IF wits = << >> THEN by_witness
    ELSE IF manuscript_witness_pattern(Head(wits))
    THEN vmr_support_all(
             support(by_witness,
                     vmr_get_base_wit(Head(wits), subwitness_suffixes).base_wit,
                     rdg_coefficients),
             Tail(wits), rdg_coefficients)
    ELSE by_witness

\* Lines 482-497: the coefficients of a reading that is neither ignored
\* nor trivial.
vmr_rdg_coefficients(segment_id, rdg, readings_by_number) ==
    IF vmr_rdg_type(vmr_rdg_label(rdg)) = "ambiguous"
    THEN LET possible_reading_labels ==
                 Split(Replace(rdg.reading[1], <<"_", "f">>, << >>), "/")
             found == possible_readings(possible_reading_labels,
                                        readings_by_number, << >>)
         IN  normalize_coefficients(found)
    ELSE <<<<vmr_rdg_id(segment_id, rdg), One>>>>

\* The second loop, lines 456-524, with st as in tei_second_pass.
RECURSIVE vmr_second_pass(_, _, _, _)
vmr_second_pass(segment_id, rdgs, readings_by_number, st) ==
    IF rdgs = << >> THEN st
    ELSE LET rdg == Head(rdgs)
             rdg_type == vmr_rdg_type(vmr_rdg_label(rdg))
             is_trivial == rdg_type \in trivial_reading_types
             rdg_coefficients ==
                 IF is_trivial THEN trivial_rdg_coefficients(st.rdg_coefficients)
                 ELSE vmr_rdg_coefficients(segment_id, rdg, readings_by_number)
             unresolved == /\ ~is_trivial
                           /\ rdg_type = "ambiguous"
                           /\ rdg_coefficients = << >>
         IN  IF skipped_in_second_pass(rdg_type)
             THEN vmr_second_pass(segment_id, Tail(rdgs), readings_by_number, st)
             ELSE IF unresolved \/ rdg.witnesses = None
             THEN vmr_second_pass(segment_id, Tail(rdgs), readings_by_number,
                      [st EXCEPT !.rdg_coefficients = rdg_coefficients])
             ELSE vmr_second_pass(segment_id, Tail(rdgs), readings_by_number,
                      [rdg_coefficients |-> rdg_coefficients,
                       readings_by_witness |->
                           vmr_support_all(st.readings_by_witness,
                               processed_witnesses(rdg.witnesses[1]),
                               rdg_coefficients)])

\* parse_segment(xml) called with self.readings = readings_before.  Line
\* 426 raises a TypeError when verse or wordsegs is missing.
parse_segment(unit, readings_before) ==
    IF unit.verse = None \/ unit.wordsegs = None
    THEN [readings |-> readings_before, raised |-> TRUE,
          readings_by_witness |-> << >>]
    ELSE LET segment_id == unit.verse[1] \o <<"/">> \o unit.wordsegs[1]
             first == vmr_first_pass(segment_id, unit.rdgs,
                          [readings |-> readings_before,
                           readings_by_number |-> << >>,
                           raised |-> FALSE])
             second == vmr_second_pass(segment_id, unit.rdgs,
                           first.readings_by_number,
                           [rdg_coefficients |-> << >>,
                            readings_by_witness |-> << >>])
         IN  [readings |-> first.readings,
              raised |-> first.raised,
              readings_by_witness |->
                  IF first.raised THEN << >> ELSE second.readings_by_witness]

\* The unit parser of the parser's own grammar (lines 293 and 559).
parse_unit(unit, readings_before) ==
    IF grammar = "tei" THEN parse_app(unit, readings_before)
    ELSE parse_segment(unit, readings_before)

(***************************************************************************)
(* The inputs the model draws.                                             *)
(***************************************************************************)
\* Most readings in the first variation unit of a document.
MaxRdgs == 3

\* Most variation units after the first.
MaxMoreUnits == 1

\* Most calls of get_base_wit in a row, each on the result of the last.
MaxCalls == 2

\* Characters of the raw tokens handed to get_base_wit.
TokenAlphabet == {"#", "*", "A", "f", "1", "V"}

\* Suffix lists for get_base_wit on its own; the last holds the empty
\* suffix.
SuffixLists ==
    { << >>,
      << <<"*">> >>,
      << <<"*">>, <<"A", "*">> >>,
      << << >> >> }

\* The settings of the parsers that read documents.
ReadSuffixes == << <<"*">> >>
ReadPrefix == <<"W">>
ReadTrivialTypes == {"orthographic", "defective"}
ReadIgnoredTypes == {"lac", "defective"}
ReadProportions == {95}

\* A <rdg/> element.
Rdg(type, n, text, wits) == [type |-> type, n |-> n, text |-> text, wit |-> wits]

\* The <rdg/> elements drawn: substantive a and b, ambiguous ones naming
\* a/b, a/c/a/b and c (no substantive reading is numbered c), and readings
\* of a trivial type, of an ignored type and of a type that is both.
TeiRdgs ==
    { Rdg(None, Some(<<"a">>), <<"s">>, Some(<< <<"A">> >>)),
      Rdg(None, Some(<<"a">>), <<"t">>, Some(<< <<"A">>, <<"A", "*">> >>)),
      Rdg(None, Some(<<"b">>), <<"t">>, Some(<< <<"B">> >>)),
      Rdg(None, Some(<<"b">>), <<"t">>, None),
      Rdg(Some("ambiguous"), Some(<<"W", "a", "/", "b">>), << >>,
          Some(<< <<"#", "C">> >>)),
      Rdg(Some("ambiguous"), Some(<<"W", "a", "/", "b">>), << >>,
          Some(<< <<"A">> >>)),
      Rdg(Some("ambiguous"), Some(<<"W", "a", "/", "c", "/", "a", "/", "b">>),
          << >>,
          Some(<< <<"#", "C">> >>)),
      Rdg(Some("ambiguous"), Some(<<"W", "c">>), << >>, Some(<< <<"B">> >>)),
      Rdg(Some("orthographic"), Some(<<"a", "o">>), <<"t">>,
          Some(<< <<"B">> >>)),
      Rdg(Some("orthographic"), Some(<<"b", "o">>), <<"t">>,
          Some(<< <<"D">>, <<"D", "*">> >>)),
      Rdg(Some("lac"), Some(<<"c">>), <<"t">>, Some(<< <<"D">> >>)),
      Rdg(Some("defective"), Some(<<"c">>), <<"t">>, Some(<< <<"B">> >>)) }

\* A <segmentReading/> element.
SegmentReading(label, reading, wits) ==
    [label |-> label, reading |-> reading, witnesses |-> wits]

\* The <segmentReading/> elements drawn, of the same kinds.
VmrRdgs ==
    { SegmentReading(Some(<<"a">>), Some(<<"s">>), Some(<<"1">>)),
      SegmentReading(Some(<<"a">>), Some(<<"t">>),
                     Some(<<"1", " ", "1", "*">>)),
      SegmentReading(Some(<<"b", Diamond>>), Some(<<"t">>), Some(<<"2">>)),
      SegmentReading(Some(<<"b">>), Some(<<"t">>), None),
      SegmentReading(Some(<<"z", "w">>), Some(<<"a", "/", "b">>),
                     Some(<<"[", "P", "3", "]">>)),
      SegmentReading(Some(<<"z", "w">>), Some(<<"a", "/", "b">>),
                     Some(<<"1">>)),
      SegmentReading(Some(<<"z", "w">>),
                     Some(<<"a", "_", "f", "/", "c", "/", "a", "/", "b">>),
                     Some(<<"P", "3">>)),
      SegmentReading(Some(<<"z", "w">>), Some(<<"a", "f", "/", "z", "z">>),
                     Some(<<"2">>)),
      SegmentReading(Some(<<"a", "o">>), Some(<<"t">>), Some(<<"2">>)),
      SegmentReading(Some(<<"b", "o", "1">>), Some(<<"t">>),
                     Some(<<"4", "(", "*", ",", "V", ")">>)),
      SegmentReading(Some(<<"z", "z">>), Some(<<"t">>), Some(<<"4">>)),
      SegmentReading(Some(<<"a", "f">>), Some(<<"t">>), Some(<<"2">>)) }

\* The sequences over S of length at most n.
SeqsUpTo(S, n) == UNION {[1..k -> S] : k \in 0..n}

\* The variation units that may follow the first one.
TeiMoreUnits ==
    { [xml_id |-> None, n |-> Some(<<"u", "2">>),
       rdgs |-> << Rdg(None, Some(<<"a">>), <<"t">>, Some(<< <<"B">> >>)) >>] }
VmrMoreUnits ==
    { [verse |-> Some(<<"v">>), wordsegs |-> Some(<<"4">>),
       rdgs |-> << SegmentReading(Some(<<"a">>), Some(<<"t">>),
                                  Some(<<"2">>)) >>] }

\* The documents drawn: a first unit of up to MaxRdgs readings, then up to
\* MaxMoreUnits further units.
TeiDocs ==
    {<<[xml_id |-> Some(<<"u">>), n |-> None, rdgs |-> rdgs]>> \o more :
        rdgs \in SeqsUpTo(TeiRdgs, MaxRdgs),
        more \in SeqsUpTo(TeiMoreUnits, MaxMoreUnits)}
VmrDocs ==
    {<<[verse |-> Some(<<"v">>), wordsegs |-> Some(<<"2">>),
        rdgs |-> rdgs]>> \o more :
        rdgs \in SeqsUpTo(VmrRdgs, MaxRdgs),
        more \in SeqsUpTo(VmrMoreUnits, MaxMoreUnits)}

(***************************************************************************)
(* The parser object: __init__ (lines 18-31).                              *)
(***************************************************************************)
NoUnit == << >>

ParserConstructed ==
    /\ min_extant = 0
    /\ readings = << >>
    /\ witnesses = << >>
    /\ collation_matrix = Zeros(0, 0)
    /\ fragmentary_witnesses = << >>
    /\ fragmentary_collation_matrix = Zeros(0, 0)

NoReadYet ==
    /\ pc = "idle"
    /\ xml = << >>
    /\ n_parsed = 0
    /\ readings_by_witness = << >>
    /\ app = NoUnit
    /\ readings_by_witness_for_app = << >>
    /\ raw = [readings |-> << >>, witnesses |-> << >>,
              collation_matrix |-> Zeros(0, 0)]
    /\ col_sums = << >>
    /\ tfidf_calls = << >>
    /\ n_reads = 0

NoNormCall ==
    /\ token = << >>
    /\ normalized = << >>
    /\ norm_pc = "idle"

ReadSettings ==
    /\ grammar \in {"tei", "vmr"}
    /\ min_extant_proportion \in ReadProportions
    /\ use_tfidf \in BOOLEAN
    /\ ambiguous_rdg_prefix = ReadPrefix
    /\ subwitness_suffixes = ReadSuffixes
    /\ trivial_reading_types = ReadTrivialTypes
    /\ ignored_reading_types = ReadIgnoredTypes
    /\ caller = "direct"

\* A parser as constructed, before its first read.
Init == ReadSettings /\ ParserConstructed /\ NoReadYet /\ NoNormCall

(***************************************************************************)
(* read, step by step.                                                     *)
(***************************************************************************)
\* A variant of ReadBegin that leaves the lists as the read before left
\* them.
ReadBegin_keeping_lists(docs) ==
    /\ pc = "idle"
    /\ \E d \in docs :
        /\ xml' = d
        /\ min_extant' = min_extant_for(Len(d))
    /\ readings_by_witness' = << >>
    /\ n_parsed' = 0
    /\ n_reads' = n_reads + 1
    /\ pc' = "parsing"
    /\ UNCHANGED <<readings, witnesses, collation_matrix,
                   fragmentary_witnesses, fragmentary_collation_matrix, app,
                   readings_by_witness_for_app, raw, col_sums, tfidf_calls>>
    /\ UNCHANGED <<config_vars, norm_vars>>

\* Lines 281-291 (542-557): the document is there, the lists are emptied
\* and the threshold is set from the number of units.
ReadBegin(docs) ==
    /\ pc = "idle"
    /\ \E d \in docs :
        /\ xml' = d
        /\ min_extant' = min_extant_for(Len(d))
    /\ readings' = << >>
    /\ witnesses' = << >>
    /\ readings_by_witness' = << >>
    /\ n_parsed' = 0
    /\ n_reads' = n_reads + 1
    /\ pc' = "parsing"
    /\ UNCHANGED <<collation_matrix, fragmentary_witnesses,
                   fragmentary_collation_matrix, app,
                   readings_by_witness_for_app, raw, col_sums, tfidf_calls>>
    /\ UNCHANGED <<config_vars, norm_vars>>

\* Lines 292-305 (558-571): one turn of the loop over the units.  When the
\* unit parser raises, read ends there with what it has changed so far.
ReadParseUnit ==
    /\ pc = "parsing"
    /\ n_parsed < Len(xml)
    /\ LET unit == xml[n_parsed + 1]
           parsed == parse_unit(unit, readings)
           merged == merge_unit([witnesses |-> witnesses,
                                 readings_by_witness |-> readings_by_witness],
                                parsed.readings_by_witness)
       IN  /\ app' = unit
           /\ readings' = parsed.readings
           /\ readings_by_witness_for_app' = parsed.readings_by_witness
           /\ IF parsed.raised
              THEN /\ pc' = "parse_raised"
                   /\ UNCHANGED <<witnesses, readings_by_witness, n_parsed>>
              ELSE /\ pc' = "parsing"
                   /\ witnesses' = merged.witnesses
                   /\ readings_by_witness' = merged.readings_by_witness
                   /\ n_parsed' = n_parsed + 1
    /\ UNCHANGED <<min_extant, collation_matrix, fragmentary_witnesses,
                   fragmentary_collation_matrix, xml, raw, col_sums,
                   tfidf_calls, n_reads>>
    /\ UNCHANGED <<config_vars, norm_vars>>

\* Lines 307-320 (574-587): the raw matrix.
ReadAssemble ==
    /\ pc = "parsing"
    /\ n_parsed = Len(xml)
    /\ LET m == assemble(readings, witnesses, readings_by_witness)
       IN  /\ collation_matrix' = m
           /\ raw' = [readings |-> readings, witnesses |-> witnesses,
                      collation_matrix |-> m]
    /\ pc' = "assembled"
    /\ UNCHANGED <<min_extant, readings, witnesses, fragmentary_witnesses,
                   fragmentary_collation_matrix, xml, n_parsed,
                   readings_by_witness, app, readings_by_witness_for_app,
                   col_sums, tfidf_calls, n_reads>>
    /\ UNCHANGED <<config_vars, norm_vars>>

\* Lines 327 and 594: postprocess, the last step of read.  A ValueError of
\* the transformer ends it with what it has assigned so far.
Postprocess ==
    /\ pc = "assembled"
    /\ LET post == postprocess(collation_matrix, witnesses, readings, min_extant)
       IN  /\ col_sums' = post.col_sums
           /\ witnesses' = post.witnesses
           /\ fragmentary_witnesses' = post.fragmentary_witnesses
           /\ readings' = post.readings
           /\ collation_matrix' = post.collation_matrix
           /\ fragmentary_collation_matrix' = post.fragmentary_collation_matrix
           /\ tfidf_calls' = post.tfidf_calls
           /\ pc' = IF post.raised THEN "tfidf_raised" ELSE "done"
    /\ UNCHANGED <<min_extant, xml, n_parsed, readings_by_witness, app,
                   readings_by_witness_for_app, raw, n_reads>>
    /\ UNCHANGED <<config_vars, norm_vars>>

\* tei_collation_parser.read on one of the documents.
TeiRead == grammar = "tei" /\ ReadBegin(TeiDocs)

\* vmr_collation_parser.read on one of the documents.
VmrRead == grammar = "vmr" /\ ReadBegin(VmrDocs)

Next == TeiRead \/ VmrRead \/ ReadParseUnit \/ ReadAssemble \/ Postprocess

Spec == Init /\ [][Next]_vars


(***************************************************************************)
(* get_base_wit on its own, called again on what it returned.              *)
(***************************************************************************)
\* A parser with one of the suffix lists and a raw token to normalize.
InitNorm ==
    /\ grammar \in {"tei", "vmr"}
    /\ min_extant_proportion \in ReadProportions
    /\ use_tfidf = FALSE
    /\ ambiguous_rdg_prefix = ReadPrefix
    /\ subwitness_suffixes \in SuffixLists
    /\ trivial_reading_types = ReadTrivialTypes
    /\ ignored_reading_types = ReadIgnoredTypes
    /\ caller = "direct"
    /\ ParserConstructed
    /\ NoReadYet
    /\ token \in StringsUpTo(TokenAlphabet, MaxLen)
    /\ normalized = << >>
    /\ norm_pc = "idle"

\* The argument of the next call: the token, then the last result.
next_argument == IF normalized = << >> THEN token ELSE normalized[Len(normalized)]

\* One call; got is [halts, base_wit].  A call that never returns leaves
\* the caller hung.
GetBaseWit(got) ==
    /\ norm_pc # "hung"
    /\ Len(normalized) < MaxCalls
    /\ IF got.halts
       THEN /\ normalized' = Append(normalized, got.base_wit)
            /\ norm_pc' = "returned"
       ELSE /\ normalized' = normalized
            /\ norm_pc' = "hung"
    /\ UNCHANGED <<token, config_vars, parser_vars, read_vars>>

\* tei_collation_parser.get_base_wit
TeiGetBaseWit ==
    /\ grammar = "tei"
    /\ GetBaseWit(tei_get_base_wit(next_argument, subwitness_suffixes))

\* vmr_collation_parser.get_base_wit
VmrGetBaseWit ==
    /\ grammar = "vmr"
    /\ GetBaseWit(vmr_get_base_wit(next_argument, subwitness_suffixes))

NextNorm == TeiGetBaseWit \/ VmrGetBaseWit

SpecNorm == InitNorm /\ [][NextNorm]_vars

(***************************************************************************)
(* postprocess on its own, from the raw matrices read can have assembled.  *)
(***************************************************************************)
\* Most rows and columns of a raw matrix, and the highest threshold.
MaxRows == 3
MaxCols == 3
MaxExtant == 3

\* The coefficients of the raw matrices drawn: no support and the full
\* support of a Substantive reading.
RawCoefficients == {0, One}

Numeral == <<"1", "2", "3", "4", "5", "6", "7", "8", "9">>

\* The k-th reading label and the k-th witness siglum.
ReadingLabel(k) == <<"u", "_", Numeral[k]>>
Siglum(k) == <<"W", Numeral[k]>>

\* The raw matrices of r rows and c columns.
RawMatrices(r, c) ==
    {[shape |-> <<r, c>>, a |-> cells, idf |-> << >>] :
        cells \in [(1..r) \X (1..c) -> RawCoefficients]}

\* A witness's coefficients as read collects them: the non-zero cells of
\* its column.
RECURSIVE coefficients_of_column(_, _, _)
coefficients_of_column(m, j, i) ==
    IF i = 0 THEN << >>
    ELSE LET before == coefficients_of_column(m, j, i - 1)
         IN  IF m.a[<<i, j>>] = 0 THEN before
             ELSE Append(before, <<ReadingLabel(i), m.a[<<i, j>>]>>)

\* The parser where read has assembled the raw matrix (line 320), for
\* every raw matrix, threshold and reweighting setting drawn.
InitPost ==
    /\ grammar = "tei"
    /\ min_extant_proportion \in ReadProportions
    /\ use_tfidf \in BOOLEAN
    /\ ambiguous_rdg_prefix = ReadPrefix
    /\ subwitness_suffixes = ReadSuffixes
    /\ trivial_reading_types = ReadTrivialTypes
    /\ ignored_reading_types = ReadIgnoredTypes
    /\ caller = "direct"
    /\ min_extant \in 0..MaxExtant
    /\ \E r \in 0..MaxRows, c \in 0..MaxCols :
        /\ readings = [i \in 1..r |-> ReadingLabel(i)]
        /\ witnesses = [j \in 1..c |-> Siglum(j)]
        /\ collation_matrix \in RawMatrices(r, c)
    /\ raw = [readings |-> readings, witnesses |-> witnesses,
              collation_matrix |-> collation_matrix]
    /\ readings_by_witness =
           [j \in 1..Len(witnesses) |->
               <<witnesses[j],
                 coefficients_of_column(collation_matrix, j, Len(readings))>>]
    /\ fragmentary_witnesses = << >>
    /\ fragmentary_collation_matrix = Zeros(0, 0)
    /\ pc = "assembled"
    /\ xml = << >>
    /\ n_parsed = 0
    /\ app = NoUnit
    /\ readings_by_witness_for_app = << >>
    /\ col_sums = << >>
    /\ tfidf_calls = << >>
    /\ n_reads = 1
    /\ NoNormCall

NextPost == Postprocess

SpecPost == InitPost /\ [][NextPost]_vars


(***************************************************************************)
(* C1.  Normalization.                                                     *)
(***************************************************************************)
\* C1: witness normalization is idempotent in both grammars: whenever
\* get_base_wit has been called on a raw token and then again on what it
\* returned, the second call returned what the first one did.
NormalizationIdempotent ==
    Len(normalized) >= 2 => normalized[2] = normalized[1]


(***************************************************************************)
(* What the properties below say of a variation unit, in the terms of the  *)
(* specification: its candidates, their types, labels and support.         *)
(***************************************************************************)
\* The type of a candidate reading, in the parser's own grammar.
TypeOf(rdg) ==
    IF grammar = "tei" THEN tei_rdg_type(rdg)
    ELSE vmr_rdg_type(vmr_rdg_label(rdg))

IsIgnored(rdg) == TypeOf(rdg) \in ignored_reading_types
IsTrivial(rdg) == ~IsIgnored(rdg) /\ TypeOf(rdg) \in trivial_reading_types
IsAmbiguous(rdg) ==
    ~IsIgnored(rdg) /\ ~IsTrivial(rdg) /\ TypeOf(rdg) = "ambiguous"
IsSubstantive(rdg) ==
    ~IsIgnored(rdg) /\ ~IsTrivial(rdg) /\ TypeOf(rdg) # "ambiguous"

\* The number a Substantive candidate is known by, and the row label it
\* adds.
NumberOf(rdg) == IF grammar = "tei" THEN rdg.n[1] ELSE vmr_rdg_label(rdg)
LabelOf(unit, rdg) ==
    IF grammar = "tei" THEN tei_rdg_label(tei_app_id(unit), rdg)
    ELSE vmr_rdg_id(unit.verse[1] \o <<"/">> \o unit.wordsegs[1], rdg)

\* The slash-separated list of an Ambiguous candidate, and the numbers it
\* names.
NamedList(rdg) ==
    IF grammar = "tei"
    THEN Split(Strip(rdg.n[1], ambiguous_rdg_prefix), "/")
    ELSE Split(Replace(rdg.reading[1], <<"_", "f">>, << >>), "/")
NamedBy(rdg) == {NamedList(rdg)[i] : i \in 1..Len(NamedList(rdg))}

\* The labels an Ambiguous candidate resolves to: for each number it names
\* that a Substantive candidate of the unit bears, the label of the last
\* such candidate.
ResolvedLabels(unit, rdg) ==
    {LabelOf(unit, unit.rdgs[i]) : i \in
        {i \in 1..Len(unit.rdgs) :
            /\ IsSubstantive(unit.rdgs[i])
            /\ NumberOf(unit.rdgs[i]) \in NamedBy(rdg)
            /\ \A k \in (i + 1)..Len(unit.rdgs) :
                   IsSubstantive(unit.rdgs[k])
                   => NumberOf(unit.rdgs[k]) # NumberOf(unit.rdgs[i])}}

\* The set of the keys of a dict.
KeySet(d) == {d[i][1] : i \in 1..Len(d)}

\* The witnesses a candidate names, each with the number of its tokens
\* that name it (the tokens the parser distributes to, normalized as it
\* normalizes them).
TokenCounts(rdg) ==
    LET once == <<<<"token", 1>>>>
    IN  IF grammar = "tei"
        THEN IF rdg.wit = None THEN << >>
             ELSE tei_support_all(<< >>, rdg.wit[1], once)
        ELSE IF rdg.witnesses = None THEN << >>
             ELSE vmr_support_all(<< >>,
                      processed_witnesses(rdg.witnesses[1]), once)
Supporters(rdg) == KeySet(TokenCounts(rdg))
TimesSupported(rdg, w) ==
    IF w \in Supporters(rdg) THEN DictGet(TokenCounts(rdg), w)[1][2] ELSE 0

\* The coefficients the second loop of the unit parser holds when it has
\* dealt with the first k candidates: what candidate k hands to its
\* witnesses.
EmittedBy(unit, k) ==
    IF grammar = "tei"
    THEN LET app_id == tei_app_id(unit)
             first == tei_first_pass(app_id, unit.rdgs,
                          [readings |-> << >>, readings_by_number |-> << >>,
                           raised |-> FALSE])
         IN  tei_second_pass(app_id, SubSeq(unit.rdgs, 1, k),
                 first.readings_by_number,
                 [rdg_coefficients |-> << >>,
                  readings_by_witness |-> << >>]).rdg_coefficients
    ELSE LET segment_id == unit.verse[1] \o <<"/">> \o unit.wordsegs[1]
             first == vmr_first_pass(segment_id, unit.rdgs,
                          [readings |-> << >>, readings_by_number |-> << >>,
                           raised |-> FALSE])
         IN  vmr_second_pass(segment_id, SubSeq(unit.rdgs, 1, k),
                 first.readings_by_number,
                 [rdg_coefficients |-> << >>,
                  readings_by_witness |-> << >>]).rdg_coefficients

\* The sum of the values of a coefficient dict.
RECURSIVE SumOfCoefficients(_)
SumOfCoefficients(d) ==
    IF d = << >> THEN 0 ELSE Head(d)[2] + SumOfCoefficients(Tail(d))

\* The unit parser has returned for the unit app.
UnitParsed == app # NoUnit /\ pc # "parse_raised"

\* The witnesses the unit names on candidate k and on no other candidate
\* that is not Ignored, with one token.
OnlySupporters(unit, k) ==
    {w \in KeySet(readings_by_witness_for_app) :
        /\ TimesSupported(unit.rdgs[k], w) = 1
        /\ \A i \in 1..Len(unit.rdgs) :
               (i # k /\ ~IsIgnored(unit.rdgs[i]))
               => TimesSupported(unit.rdgs[i], w) = 0}

(***************************************************************************)
(* C2.  Ambiguity weight conservation.                                     *)
(***************************************************************************)
\* The coefficient dict d splits one unit of support equally over the
\* labels of the set K: one entry for each label, each worth 1/|K|, and all
\* of them together worth exactly 1.
SplitsOneOver(d, K) ==
    /\ Len(d) = Cardinality(K)
    /\ KeySet(d) = K
    /\ \A i \in 1..Len(d) : d[i][2] * Cardinality(K) = One
    /\ SumOfCoefficients(d) = One

\* C2: every Ambiguous candidate of a parsed unit that resolves to at least
\* one known reading emits coefficients that sum to exactly 1, split
\* equally (1/k each) over its k distinct resolvable labels, also when its
\* list repeats a label or names unknown ones; a witness it alone supports
\* holds exactly these coefficients in the map the unit parser returns.
AmbiguityWeightConserved ==
    UnitParsed =>
        \A k \in 1..Len(app.rdgs) :
            (IsAmbiguous(app.rdgs[k]) /\ ResolvedLabels(app, app.rdgs[k]) # {})
            => /\ SplitsOneOver(EmittedBy(app, k),
                                ResolvedLabels(app, app.rdgs[k]))
               /\ \A w \in OnlySupporters(app, k) :
                      SplitsOneOver(DictGet(readings_by_witness_for_app, w),
                                    ResolvedLabels(app, app.rdgs[k]))

\* A parsed unit in which an Ambiguous candidate resolves to two known
\* readings through a list that repeats one of them and names an unknown
\* one, and is the only support of its witness.
AmbiguityWeightConservedWitness ==
    /\ UnitParsed
    /\ \E k \in 1..Len(app.rdgs) :
        /\ IsAmbiguous(app.rdgs[k])
        /\ Cardinality(ResolvedLabels(app, app.rdgs[k])) = 2
        /\ Cardinality(NamedBy(app.rdgs[k])) = 3
        /\ Len(NamedList(app.rdgs[k])) = 4
        /\ OnlySupporters(app, k) # {}


(***************************************************************************)
(* C3.  Two Substantive readings and an Ambiguous one denoting both.       *)
(***************************************************************************)
\* read has built the raw matrix.
RawBuilt == pc \in {"assembled", "done", "tfidf_raised"}

\* The one witness that supports the candidate, if there is just one.
SoleSupporter(rdg) == CHOOSE w \in Supporters(rdg) : TRUE

\* The candidate is supported by one witness, named by one token.
SupportedByOne(rdg) ==
    /\ Cardinality(Supporters(rdg)) = 1
    /\ TimesSupported(rdg, SoleSupporter(rdg)) = 1

\* The document has one unit, holding two Substantive readings a and b,
\* each supported by one distinct witness, and an Ambiguous reading c that
\* denotes both and is supported by a third witness.
TwoReadingsAndBoth(a, b, c) ==
    /\ Len(xml) = 1
    /\ Len(xml[1].rdgs) = 3
    /\ {a, b, c} = 1..3
    /\ a < b
    /\ IsSubstantive(xml[1].rdgs[a])
    /\ IsSubstantive(xml[1].rdgs[b])
    /\ IsAmbiguous(xml[1].rdgs[c])
    /\ ResolvedLabels(xml[1], xml[1].rdgs[c])
           = {LabelOf(xml[1], xml[1].rdgs[a]), LabelOf(xml[1], xml[1].rdgs[b])}
    /\ LabelOf(xml[1], xml[1].rdgs[a]) # LabelOf(xml[1], xml[1].rdgs[b])
    /\ \A k \in 1..3 : SupportedByOne(xml[1].rdgs[k])
    /\ Cardinality({SoleSupporter(xml[1].rdgs[k]) : k \in 1..3}) = 3

\* C3: for a document with one unit holding two Substantive readings a and
\* b, each supported by one distinct witness, and an Ambiguous reading
\* denoting both and supported by a third witness, the raw matrix read
\* builds has exactly 2 rows (those of a and b) and 3 columns, and the
\* third witness's column holds 0.5 in both rows.
AmbiguousThirdWitnessColumn ==
    RawBuilt =>
        \A a, b, c \in 1..3 :
            TwoReadingsAndBoth(a, b, c)
            => /\ raw.collation_matrix.shape = <<2, 3>>
               /\ raw.readings = <<LabelOf(xml[1], xml[1].rdgs[a]),
                                   LabelOf(xml[1], xml[1].rdgs[b])>>
               /\ {raw.witnesses[j] : j \in 1..Len(raw.witnesses)}
                      = {SoleSupporter(xml[1].rdgs[k]) : k \in 1..3}
               /\ \A j \in 1..Len(raw.witnesses) :
                      raw.witnesses[j] = SoleSupporter(xml[1].rdgs[c])
                      => /\ 2 * raw.collation_matrix.a[<<1, j>>] = One
                         /\ 2 * raw.collation_matrix.a[<<2, j>>] = One

\* read has built the raw matrix of such a document.
AmbiguousThirdWitnessColumnWitness ==
    RawBuilt /\ \E a, b, c \in 1..3 : TwoReadingsAndBoth(a, b, c)


(***************************************************************************)
(* C4.  The support of a Trivial candidate.                                *)
(***************************************************************************)
\* The coefficient a candidate that is Substantive or Ambiguous gives the
\* label L: 1 for its own label, 1/k for each of the k labels it resolves
\* to.
OwnCoefficient(unit, rdg, L) ==
    IF IsSubstantive(rdg)
    THEN IF L = LabelOf(unit, rdg) THEN One ELSE 0
    ELSE IF IsAmbiguous(rdg) /\ L \in ResolvedLabels(unit, rdg)
    THEN One \div Cardinality(ResolvedLabels(unit, rdg))
    ELSE 0

\* The nearest candidate before the k-th that is neither Ignored nor
\* Trivial; 0 when there is none.
Preceding(unit, k) ==
    LET before == {i \in 1..(k - 1) :
                      ~IsIgnored(unit.rdgs[i]) /\ ~IsTrivial(unit.rdgs[i])}
    IN  IF before = {} THEN 0
        ELSE CHOOSE i \in before : \A m \in before : m <= i

\* What candidate k gives the label L when the support of a Trivial
\* candidate is discarded, and when it is collapsed under the candidate
\* before it.
DiscardingCoefficient(unit, k, L) ==
    IF IsIgnored(unit.rdgs[k]) \/ IsTrivial(unit.rdgs[k]) THEN 0
    ELSE OwnCoefficient(unit, unit.rdgs[k], L)
CollapsingCoefficient(unit, k, L) ==
    IF IsIgnored(unit.rdgs[k]) THEN 0
    ELSE IF ~IsTrivial(unit.rdgs[k]) THEN OwnCoefficient(unit, unit.rdgs[k], L)
    ELSE IF Preceding(unit, k) = 0 THEN 0
    ELSE OwnCoefficient(unit, unit.rdgs[Preceding(unit, k)], L)

\* The labels of the unit's rows and the witnesses its candidates name.
UnitLabels(unit) ==
    {LabelOf(unit, unit.rdgs[k]) : k \in
        {k \in 1..Len(unit.rdgs) : IsSubstantive(unit.rdgs[k])}}
UnitSupporters(unit) ==
    UNION {Supporters(unit.rdgs[k]) : k \in 1..Len(unit.rdgs)}

\* The coefficient the returned map of the unit holds for w and L.
Returned(w, L) ==
    IF w \in KeySet(readings_by_witness_for_app)
    THEN DictGetOr0(DictGet(readings_by_witness_for_app, w), L)
    ELSE 0

\* C4 (as stated): a Trivial candidate's support is discarded: the map the
\* unit parser returns holds, for every witness and label, just what the
\* candidates that are neither Ignored nor Trivial give through their own
\* tokens, whatever candidate precedes a Trivial one.
TrivialSupportDiscarded ==
    UnitParsed =>
        \A w \in UnitSupporters(app) : \A L \in UnitLabels(app) :
            Returned(w, L) =
                SumTo([k \in 1..Len(app.rdgs) |->
                          TimesSupported(app.rdgs[k], w)
                              * DiscardingCoefficient(app, k, L)],
                      Len(app.rdgs))

\* C4 (amended): a Trivial candidate's support is collapsed under the
\* nearest candidate before it that is neither Ignored nor Trivial: each
\* of its tokens gives its witness that candidate's coefficients (nothing
\* when there is no such candidate or it is an Ambiguous one that resolves
\* to nothing), and the returned map holds the sum of what the candidates
\* give in this way.
TrivialSupportCollapsed ==
    UnitParsed =>
        \A w \in UnitSupporters(app) : \A L \in UnitLabels(app) :
            Returned(w, L) =
                SumTo([k \in 1..Len(app.rdgs) |->
                          TimesSupported(app.rdgs[k], w)
                              * CollapsingCoefficient(app, k, L)],
                      Len(app.rdgs))

\* A parsed unit where a Trivial candidate comes after a Substantive one
\* and an Ignored one, and a witness named on it alone holds the full
\* coefficient of the Substantive reading.
TrivialSupportCollapsedWitness ==
    /\ UnitParsed
    /\ \E k \in 1..Len(app.rdgs) :
        /\ IsTrivial(app.rdgs[k])
        /\ Preceding(app, k) # 0
        /\ Preceding(app, k) < k - 1
        /\ IsIgnored(app.rdgs[k - 1])
        /\ IsSubstantive(app.rdgs[Preceding(app, k)])
        /\ \E w \in OnlySupporters(app, k) :
               Returned(w, LabelOf(app, app.rdgs[Preceding(app, k)])) = One

(***************************************************************************)
(* C10.  Ignored candidates.                                               *)
(***************************************************************************)
\* The unit without its Ignored candidates.
WithoutIgnored(unit) ==
    [unit EXCEPT !.rdgs = SelectSeq(unit.rdgs, LAMBDA rdg : ~IsIgnored(rdg))]

\* The row labels the first k units of the document give when their
\* Ignored candidates are taken out first.
RECURSIVE ReadingsWithoutIgnored(_)
ReadingsWithoutIgnored(k) ==
    IF k = 0 THEN << >>
    ELSE parse_unit(WithoutIgnored(xml[k]),
                    ReadingsWithoutIgnored(k - 1)).readings

\* C10: Ignored-type candidates are excluded entirely, also when their type
\* is a trivial type as well: the unit parser leaves the row labels and
\* returns the witness map, entries and coefficients, that it leaves and
\* returns for the unit without its Ignored candidates.
IgnoredExcluded ==
    /\ UnitParsed
       => readings_by_witness_for_app
              = parse_unit(WithoutIgnored(app), << >>).readings_by_witness
    /\ pc = "parsing" => readings = ReadingsWithoutIgnored(n_parsed)

\* A parsed unit with an Ignored candidate of a type that is trivial as
\* well, after a Substantive candidate; an Ambiguous candidate names its
\* number, and a witness named on it has no entry in the returned map.
IgnoredExcludedWitness ==
    /\ UnitParsed
    /\ pc = "parsing"
    /\ \E k \in 2..Len(app.rdgs) :
        /\ IsIgnored(app.rdgs[k])
        /\ TypeOf(app.rdgs[k]) \in trivial_reading_types
        /\ IsSubstantive(app.rdgs[k - 1])
        /\ Supporters(app.rdgs[k]) # {}
        /\ Supporters(app.rdgs[k]) \cap KeySet(readings_by_witness_for_app) = {}
        /\ \E m \in 1..Len(app.rdgs) :
               /\ IsAmbiguous(app.rdgs[m])
               /\ NumberOf(app.rdgs[k]) \in NamedBy(app.rdgs[m])


(***************************************************************************)
(* C5 - C9.  postprocess.                                                  *)
(***************************************************************************)
\* postprocess has run, to its end or to a ValueError of the transformer.
PostprocessRan == pc \in {"done", "tfidf_raised"}

\* The position of x in the list xs.
PositionIn(xs, x) == CHOOSE k \in 1..Len(xs) : xs[k] = x

\* The list xs holds its elements once each, in the order ys holds them.
OrderedSublist(xs, ys) ==
    /\ \A k \in 1..Len(xs) : \E m \in 1..Len(ys) : ys[m] = xs[k]
    /\ \A k, m \in 1..Len(xs) :
           k < m => PositionIn(ys, xs[k]) < PositionIn(ys, xs[m])

\* The cell of the raw matrix for the reading rdg and the witness wit_key.
RawCell(rdg, wit_key) ==
    raw.collation_matrix.a[<<PositionIn(raw.readings, rdg),
                             PositionIn(raw.witnesses, wit_key)>>]

\* The matrix m, whose columns are the witnesses of sigla, has a row for
\* each reading of the readings list, in its order, holding the
\* coefficients of the raw matrix.
RowsAreReadings(m, sigla) ==
    /\ m.shape = <<Len(readings), Len(sigla)>>
    /\ \A i \in 1..Len(readings) : \A j \in 1..Len(sigla) :
           m.a[<<i, j>>] = RawCell(readings[i], sigla[j])

\* The sum of column j of the raw matrix.
RawColumnSum(j) ==
    SumTo([i \in 1..Len(raw.readings) |-> raw.collation_matrix.a[<<i, j>>]],
          Len(raw.readings))

\* C5: after postprocess the primary and the fragmentary matrix have the
\* same row set: both have one row for each reading of the one pruned
\* readings list, in its order, for every raw matrix, threshold and
\* reweighting setting.
SameRowSet ==
    PostprocessRan =>
        /\ OrderedSublist(readings, raw.readings)
        /\ RowsAreReadings(collation_matrix, witnesses)
        /\ RowsAreReadings(fragmentary_collation_matrix, fragmentary_witnesses)

\* postprocess has pruned a reading that a fragmentary witness attests and
\* kept two, with reweighting on.
SameRowSetWitness ==
    /\ PostprocessRan
    /\ use_tfidf
    /\ Len(readings) = 2
    /\ fragmentary_witnesses # << >>
    /\ \E i \in 1..Len(raw.readings) :
        /\ \A k \in 1..Len(readings) : readings[k] # raw.readings[i]
        /\ \E j \in 1..Len(fragmentary_witnesses) :
               RawCell(raw.readings[i], fragmentary_witnesses[j]) # 0

\* The sum of row i of the matrix m is strictly positive: one of its cells
\* is, a cell being worth a * (ln(n / df) + plus) once the row factors
\* are in.
RowSumPositive(m, i) ==
    \E j \in 1..NCols(m) :
        /\ m.a[<<i, j>>] > 0
        /\ m.idf # << >> => (m.idf[i].df < m.idf[i].n \/ m.idf[i].plus > 0)

\* Every primary witness attests the reading of row i.
AttestedByAll(i) ==
    \A j \in 1..NCols(collation_matrix) : collation_matrix.a[<<i, j>>] # 0

\* C6 (as stated): after postprocess completes, every row of the primary
\* matrix has a strictly positive sum, under every configuration.
NoOrphanReadings ==
    pc = "done" =>
        \A i \in 1..NRows(collation_matrix) : RowSumPositive(collation_matrix, i)

\* C6 (amended): after postprocess completes, every row of the primary
\* matrix has a strictly positive sum, except, when reweighting is
\* enabled, the rows of the readings every primary witness attests: these
\* rows are kept and sum to zero.
NoOrphanReadingsButUniversal ==
    pc = "done" =>
        \A i \in 1..NRows(collation_matrix) :
            RowSumPositive(collation_matrix, i)
                <=> ~(use_tfidf /\ AttestedByAll(i))

\* postprocess has completed with reweighting on, two primary witnesses, a
\* reading both attest and a reading one of them attests.
NoOrphanReadingsButUniversalWitness ==
    /\ pc = "done"
    /\ use_tfidf
    /\ Len(witnesses) = 2
    /\ \E i \in 1..NRows(collation_matrix) : AttestedByAll(i)
    /\ \E i \in 1..NRows(collation_matrix) : ~AttestedByAll(i)

\* How many times x is in the list xs.
Occurrences(xs, x) == Cardinality({k \in 1..Len(xs) : xs[k] = x})

\* C7: after postprocess every witness that was a column of the raw matrix
\* is in exactly one of the primary and the fragmentary witness list,
\* once, and the lists hold no other witness; its column holds, on every
\* row kept, the value the raw matrix held before reweighting.
PartitionComplete ==
    PostprocessRan =>
        /\ \A j \in 1..Len(raw.witnesses) :
               Occurrences(witnesses, raw.witnesses[j])
                   + Occurrences(fragmentary_witnesses, raw.witnesses[j]) = 1
        /\ Len(witnesses) + Len(fragmentary_witnesses) = Len(raw.witnesses)
        /\ \A i \in 1..Len(readings) :
            /\ \A j \in 1..Len(witnesses) :
                   collation_matrix.a[<<i, j>>]
                       = RawCell(readings[i], witnesses[j])
            /\ \A j \in 1..Len(fragmentary_witnesses) :
                   fragmentary_collation_matrix.a[<<i, j>>]
                       = RawCell(readings[i], fragmentary_witnesses[j])

\* postprocess has split three witnesses, one of them with a column sum
\* equal to the threshold, into both lists and kept a reading.
PartitionCompleteWitness ==
    /\ PostprocessRan
    /\ Len(raw.witnesses) = 3
    /\ witnesses # << >>
    /\ fragmentary_witnesses # << >>
    /\ readings # << >>
    /\ min_extant > 0
    /\ \E j \in 1..Len(raw.witnesses) : RawColumnSum(j) = min_extant * One

\* The witnesses of the raw matrix whose column passes the test, in the
\* order of the raw matrix.
RawWitnessesWhere(Test(_)) ==
    LET cols == SelectSeq([j \in 1..Len(raw.witnesses) |-> j], Test)
    IN  [k \in 1..Len(cols) |-> raw.witnesses[cols[k]]]

\* C8: postprocess sends a witness to the primary matrix exactly when its
\* column sum is >= the extant threshold (the boundary value is primary)
\* and to the fragmentary matrix otherwise, and keeps the witnesses'
\* relative order; so with threshold 2 and counts 3, 1, 2 the witnesses
\* with counts 3 and 2 are primary and the one with count 1 fragmentary.
ThresholdSplit ==
    PostprocessRan =>
        /\ witnesses =
               RawWitnessesWhere(LAMBDA j : RawColumnSum(j) >= min_extant * One)
        /\ fragmentary_witnesses =
               RawWitnessesWhere(LAMBDA j : RawColumnSum(j) < min_extant * One)

\* postprocess has run with threshold 2 on three witnesses with counts 3,
\* 1 and 2: the first and the third are primary, the second fragmentary.
ThresholdSplitWitness ==
    /\ PostprocessRan
    /\ min_extant = 2
    /\ Len(raw.witnesses) = 3
    /\ RawColumnSum(1) = 3 * One
    /\ RawColumnSum(2) = 1 * One
    /\ RawColumnSum(3) = 2 * One
    /\ witnesses = <<raw.witnesses[1], raw.witnesses[3]>>
    /\ fragmentary_witnesses = <<raw.witnesses[2]>>

\* The number of readings for which the witness of column j of the raw
\* matrix has non-zero support.
SupportedReadings(j) ==
    Cardinality({i \in 1..Len(raw.readings) :
                    raw.collation_matrix.a[<<i, j>>] # 0})

MaxUnits == 2

\* The proportions given to the constructor, in hundredths: the default
\* and one on either side of the range from 0 to 1.
EdgeProportions == {-50, 95, 150}

\* The <app/> elements of the short documents: a well-formed one, one
\* without xml:id and n, one whose reading has no n, one whose reading of
\* an ignored type has no n, one with two readings of the same number and
\* text, one whose ambiguous reading Wa/b comes before the reading b, and
\* one whose ambiguous reading WW names the reading W.
TeiEdgeUnits ==
    { [xml_id |-> Some(<<"u">>), n |-> None,
       rdgs |-> << Rdg(None, Some(<<"a">>), <<"s">>, Some(<< <<"A">> >>)) >>],
      [xml_id |-> None, n |-> None,
       rdgs |-> << Rdg(None, Some(<<"a">>), <<"s">>, Some(<< <<"A">> >>)) >>],
      [xml_id |-> Some(<<"u">>), n |-> None,
       rdgs |-> << Rdg(None, None, <<"s">>, Some(<< <<"A">> >>)) >>],
      [xml_id |-> Some(<<"u">>), n |-> None,
       rdgs |-> << Rdg(Some("lac"), None, <<"s">>, Some(<< <<"A">> >>)) >>],
      [xml_id |-> Some(<<"u">>), n |-> None,
       rdgs |-> << Rdg(None, Some(<<"a">>), <<"s">>, Some(<< <<"A">> >>)),
                   Rdg(None, Some(<<"a">>), <<"s">>, Some(<< <<"B">> >>)) >>],
      [xml_id |-> Some(<<"u">>), n |-> None,
       rdgs |-> << Rdg(Some("ambiguous"), Some(<<"W", "a", "/", "b">>), << >>,
                       Some(<< <<"C">> >>)),
                   Rdg(None, Some(<<"b">>), <<"t">>, Some(<< <<"B">> >>)) >>],
      [xml_id |-> Some(<<"u">>), n |-> None,
       rdgs |-> << Rdg(None, Some(<<"W">>), <<"s">>, Some(<< <<"A">> >>)),
                   Rdg(Some("ambiguous"), Some(<<"W", "W">>), << >>,
                       Some(<< <<"C">> >>)) >>] }

\* The witnesses attribute "siglum(a,b)".
WithSuffixesAB(siglum) == siglum \o <<"(", "a", ",", "b", ")">>

\* The <segment/> elements of the short documents: a well-formed one, one
\* without verse, one without wordsegs, one whose reading has no label,
\* two whose reading is supported by a siglum with the parenthesized
\* suffixes a and b: X1, and the manuscript 1, one whose ambiguous reading
\* a/b comes before the reading b, and one whose reading is supported by
\* the tokens 1, X and 2.
VmrEdgeUnits ==
    { [verse |-> Some(<<"v">>), wordsegs |-> Some(<<"2">>),
       rdgs |-> << SegmentReading(Some(<<"a">>), Some(<<"s">>),
                                  Some(<<"1">>)) >>],
      [verse |-> None, wordsegs |-> Some(<<"2">>),
       rdgs |-> << SegmentReading(Some(<<"a">>), Some(<<"s">>),
                                  Some(<<"1">>)) >>],
      [verse |-> Some(<<"v">>), wordsegs |-> None,
       rdgs |-> << SegmentReading(Some(<<"a">>), Some(<<"s">>),
                                  Some(<<"1">>)) >>],
      [verse |-> Some(<<"v">>), wordsegs |-> Some(<<"2">>),
       rdgs |-> << SegmentReading(None, Some(<<"s">>), Some(<<"1">>)) >>],
      [verse |-> Some(<<"v">>), wordsegs |-> Some(<<"2">>),
       rdgs |-> << SegmentReading(Some(<<"a">>), Some(<<"s">>),
                                  Some(WithSuffixesAB(<<"X", "1">>))) >>],
      [verse |-> Some(<<"v">>), wordsegs |-> Some(<<"2">>),
       rdgs |-> << SegmentReading(Some(<<"a">>), Some(<<"s">>),
                                  Some(WithSuffixesAB(<<"1">>))) >>],
      [verse |-> Some(<<"v">>), wordsegs |-> Some(<<"2">>),
       rdgs |-> << SegmentReading(Some(<<"z", "w">>), Some(<<"a", "/", "b">>),
                                  Some(<<"3">>)),
                   SegmentReading(Some(<<"b">>), Some(<<"t">>),
                                  Some(<<"2">>)) >>],
      [verse |-> Some(<<"v">>), wordsegs |-> Some(<<"2">>),
       rdgs |-> << SegmentReading(Some(<<"a">>), Some(<<"s">>),
                                  Some(<<"1", " ", "X", " ", "2">>)) >>] }

\* The short documents: one unit or more, MaxUnits at most.
TeiEdgeDocs == SeqsUpTo(TeiEdgeUnits, MaxUnits) \ {<< >>}
VmrEdgeDocs == SeqsUpTo(VmrEdgeUnits, MaxUnits) \ {<< >>}

\* estimate_rank.py lines 28-31: is the value of -p within 0 and 1?
proportion_in_range(p) == ~(p < 0 \/ p > 100)

\* The script about to check its arguments, or other code that has
\* constructed the parser itself (lines 18-31 make no test).
InitEdge ==
    /\ grammar \in {"tei", "vmr"}
    /\ min_extant_proportion \in EdgeProportions
    /\ use_tfidf \in BOOLEAN
    /\ ambiguous_rdg_prefix = ReadPrefix
    /\ subwitness_suffixes = ReadSuffixes
    /\ trivial_reading_types = ReadTrivialTypes
    /\ ignored_reading_types = ReadIgnoredTypes
    /\ caller \in {"script", "direct"}
    /\ ParserConstructed
    /\ pc = IF caller = "script" THEN "main" ELSE "idle"
    /\ xml = << >>
    /\ n_parsed = 0
    /\ readings_by_witness = << >>
    /\ app = NoUnit
    /\ readings_by_witness_for_app = << >>
    /\ raw = [readings |-> << >>, witnesses |-> << >>,
              collation_matrix |-> Zeros(0, 0)]
    /\ col_sums = << >>
    /\ tfidf_calls = << >>
    /\ n_reads = 0
    /\ NoNormCall

\* estimate_rank.py lines 28-31 and 44-54: main leaves with exit(1) when
\* the proportion is out of range, and else constructs the parser.
ScriptChecksProportion ==
    /\ pc = "main"
    /\ pc' = IF proportion_in_range(min_extant_proportion) THEN "idle"
             ELSE "exited"
    /\ UNCHANGED <<xml, n_parsed, readings_by_witness, app,
                   readings_by_witness_for_app, raw, col_sums, tfidf_calls,
                   n_reads>>
    /\ UNCHANGED <<config_vars, parser_vars, norm_vars>>

\* read on one of the short documents.
TeiReadEdge == grammar = "tei" /\ ReadBegin(TeiEdgeDocs)
VmrReadEdge == grammar = "vmr" /\ ReadBegin(VmrEdgeDocs)

NextEdge ==
    \/ ScriptChecksProportion
    \/ TeiReadEdge
    \/ VmrReadEdge
    \/ ReadParseUnit
    \/ ReadAssemble
    \/ Postprocess

SpecEdge == InitEdge /\ [][NextEdge]_vars

(***************************************************************************)
(* C11.  A siglum with parenthesized suffixes.                             *)
(***************************************************************************)
\* The witnesses that siglum(a,b) stands for.
ExpandedAB(siglum) == {siglum \o <<"a">>, siglum \o <<"b">>}

\* Candidate k of the unit is Substantive and its support list is the one
\* token siglum(a,b).
SupportedByAB(unit, k, siglum) ==
    /\ unit.rdgs[k].label # None
    /\ unit.rdgs[k].reading # None
    /\ IsSubstantive(unit.rdgs[k])
    /\ unit.rdgs[k].witnesses = Some(WithSuffixesAB(siglum))

\* The unit's witness map gives the witnesses of siglum(a,b) what the
\* Substantive candidate k carries: its own label with coefficient 1.
ExpandedABSupport(unit, k, siglum) ==
    \A w \in ExpandedAB(siglum) :
        /\ DictHas(readings_by_witness_for_app, w)
        /\ (\A i \in 1..Len(unit.rdgs) : i # k => unit.rdgs[i].witnesses = None)
           => DictGet(readings_by_witness_for_app, w)
                  = <<<<LabelOf(unit, unit.rdgs[k]), One>>>>

\* The sigla the short documents attach the suffixes to.
SiglaWithAB == {<<"1">>, <<"X", "1">>}

\* C11 as stated: under the remote grammar, a support token X1(a,b) on a
\* candidate expands to the base witnesses X1a and X1b, and the unit's
\* witness map gives each of them the coefficients the candidate carries.
ParenthesizedSuffixesExpanded ==
    (grammar = "vmr" /\ UnitParsed)
    => \A k \in 1..Len(app.rdgs) :
           SupportedByAB(app, k, <<"X", "1">>)
           => ExpandedABSupport(app, k, <<"X", "1">>)

\* C11 as the code has it: under the remote grammar, a support token
\* N(a,b) whose siglum N is a manuscript siglum (any number of P and L,
\* then a digit) expands to the base witnesses Na and Nb, and the unit's
\* witness map gives each of them the coefficients the candidate carries;
\* the witnesses of a siglum that is no manuscript siglum, X1, get no entry.
ManuscriptSuffixesExpanded ==
    (grammar = "vmr" /\ UnitParsed)
    => \A k \in 1..Len(app.rdgs) : \A siglum \in SiglaWithAB :
           SupportedByAB(app, k, siglum)
           => IF manuscript_witness_pattern(siglum)
              THEN ExpandedABSupport(app, k, siglum)
              ELSE \A w \in ExpandedAB(siglum) :
                       ~DictHas(readings_by_witness_for_app, w)

\* A unit parsed whose one candidate is supported by 1(a,b): the map has
\* an entry for 1a and one for 1b.
ManuscriptSuffixesExpandedWitness ==
    /\ grammar = "vmr"
    /\ UnitParsed
    /\ Len(app.rdgs) = 1
    /\ SupportedByAB(app, 1, <<"1">>)
    /\ KeySet(readings_by_witness_for_app) = ExpandedAB(<<"1">>)

(***************************************************************************)
(* C12.  The witnesses of a document.                                      *)
(***************************************************************************)
\* The set of the items of a list.
ItemSet(list) == {list[i] : i \in 1..Len(list)}

\* The raw tokens of a candidate's support list, as the grammar separates
\* them, and the base sigla they normalize to.
RawTokens(rdg) ==
    IF grammar = "tei"
    THEN IF rdg.wit = None THEN << >> ELSE rdg.wit[1]
    ELSE IF rdg.witnesses = None THEN << >>
         ELSE processed_witnesses(rdg.witnesses[1])
BaseSiglum(raw_token) ==
    IF grammar = "tei"
    THEN tei_get_base_wit(raw_token, subwitness_suffixes).base_wit
    ELSE vmr_get_base_wit(raw_token, subwitness_suffixes).base_wit
AllBaseSigla(rdg) == {BaseSiglum(RawTokens(rdg)[i]) : i \in 1..Len(RawTokens(rdg))}

\* The candidates of all units of the document.
Candidates == UNION {ItemSet(xml[u].rdgs) : u \in 1..Len(xml)}

\* The candidates of unit u that the parser takes support from: all but
\* the Ignored ones and the Ambiguous ones that resolve to no reading.
Unresolvable(unit, rdg) == IsAmbiguous(rdg) /\ ResolvedLabels(unit, rdg) = {}
SupportingCandidates(unit) ==
    {rdg \in ItemSet(unit.rdgs) : ~IsIgnored(rdg) /\ ~Unresolvable(unit, rdg)}

\* The witnesses after read, primary then fragmentary.
AllWitnesses == witnesses \o fragmentary_witnesses

\* No base siglum occurs twice among the witnesses.
NoWitnessTwice == Cardinality(ItemSet(AllWitnesses)) = Len(AllWitnesses)

\* C12 as stated: after read, the witnesses (primary plus fragmentary) are
\* exactly the distinct normalized base sigla of all raw tokens in the
\* support lists of all candidates of the document, those of Ignored,
\* Trivial and unresolvable Ambiguous candidates included, each once.
WitnessesAreAllSigla ==
    PostprocessRan
    => /\ NoWitnessTwice
       /\ ItemSet(AllWitnesses) = UNION {AllBaseSigla(rdg) : rdg \in Candidates}

\* C12 as the code has it: after read, the witnesses (primary plus
\* fragmentary) are exactly the distinct normalized base sigla of the raw
\* tokens of the candidates that are neither Ignored nor unresolvable
\* Ambiguous (Trivial ones included, whether or not a candidate precedes
\* them), each once; under the remote grammar only the tokens before the
\* first one that is no manuscript siglum count.
WitnessesAreSupportingSigla ==
    PostprocessRan
    => /\ NoWitnessTwice
       /\ ItemSet(AllWitnesses) =
              UNION {Supporters(rdg) : rdg \in
                        UNION {SupportingCandidates(xml[u]) : u \in 1..Len(xml)}}

\* A document read in which one witness supports only a Trivial candidate
\* that no candidate precedes, and another only an Ignored candidate: the
\* first is a witness and the second is not.
WitnessesAreSupportingSiglaWitness ==
    /\ PostprocessRan
    /\ \E t \in Candidates, i \in Candidates :
          /\ IsTrivial(t) /\ IsIgnored(i)
          /\ xml[1].rdgs[1] = t
          /\ Supporters(t) # {} /\ Supporters(i) # {}
          /\ Supporters(t) \cap Supporters(i) = {}
          /\ \A rdg \in Candidates \ {t, i} : Supporters(rdg) = {}
          /\ ItemSet(AllWitnesses) = Supporters(t)

(***************************************************************************)
(* C13.  Reading labels.                                                   *)
(***************************************************************************)
\* No item occurs twice in the list.
NoItemTwice(list) == Cardinality(ItemSet(list)) = Len(list)

\* C13: no two entries of the readings list built by read share a label,
\* for every document, also one where two candidates of a unit carry the
\* same number and text or two units carry the same or no identifier; so
\* every reading label maps to exactly one row of the matrix read builds.
ReadingLabelsUnique ==
    RawBuilt => NoItemTwice(raw.readings)

(***************************************************************************)
(* C14 - C17.  Reweighting.                                                *)
(***************************************************************************)
\* C14: with reweighting enabled, postprocess skips the transform without
\* error whenever the primary matrix is degenerate, that is, has zero rows
\* or zero columns, the shape of no rows and k > 0 columns included.
DegeneratePrimarySkipped ==
    (PostprocessRan /\ use_tfidf
        /\ (NRows(collation_matrix) = 0 \/ NCols(collation_matrix) = 0))
    => (pc = "done" /\ tfidf_calls = << >>)

\* C15: the fitted transform is applied to the fragmentary matrix only if
\* that matrix is non-empty; with no fragmentary witnesses (no columns, one
\* or more rows) no transform is applied to it.
EmptyFragmentarySkipped ==
    (PostprocessRan /\ use_tfidf
        /\ (NRows(fragmentary_collation_matrix) = 0
            \/ NCols(fragmentary_collation_matrix) = 0))
    => "transform fragmentary" \notin ItemSet(tfidf_calls)

\* The row factors of a fit on the matrix m: for row i, ln(n / df) with n
\* the number of columns of m and df the number of them with a non-zero
\* cell in row i.
FactorsOfFit(m) ==
    [i \in 1..NRows(m) |->
        [n |-> NCols(m),
         df |-> Cardinality({j \in 1..NCols(m) : m.a[<<i, j>>] # 0}),
         plus |-> 0]]

\* The list is the first items of the other list.
IsPrefix(list, other) ==
    Len(list) <= Len(other) /\ list = SubSeq(other, 1, Len(list))

\* The primary matrix as the split and the pruning of the rows left it:
\* the coefficients of the primary matrix, without row factors.
PrimaryBeforeReweighting == [collation_matrix EXCEPT !.idf = << >>]

\* C16: in one postprocess the transform is fitted exactly once, on the
\* primary matrix only and after the column split and the pruning of the
\* zero rows; the primary matrix is transformed before the fragmentary
\* one, and the fragmentary one with the same fit, never one of its own.
FittedOnceOnPrimary ==
    (PostprocessRan /\ use_tfidf)
    => /\ IsPrefix(tfidf_calls,
                   <<"fit primary", "transform primary",
                     "transform fragmentary">>)
       /\ "transform primary" \in ItemSet(tfidf_calls)
          => collation_matrix.idf = FactorsOfFit(PrimaryBeforeReweighting)
       /\ ("transform fragmentary" \in ItemSet(tfidf_calls) /\ pc = "done")
          => fragmentary_collation_matrix.idf = collation_matrix.idf
       /\ "transform fragmentary" \notin ItemSet(tfidf_calls)
          => fragmentary_collation_matrix.idf = << >>

\* Both matrices have been transformed, and a fit on the fragmentary
\* matrix or on the raw one would have given other factors.
FittedOnceOnPrimaryWitness ==
    /\ pc = "done"
    /\ Len(tfidf_calls) = 3
    /\ FactorsOfFit([fragmentary_collation_matrix EXCEPT !.idf = << >>])
           # collation_matrix.idf
    /\ Len(raw.readings) > Len(readings)
    /\ \E i \in 1..Len(readings) :
           collation_matrix.idf[i].df < collation_matrix.idf[i].n

\* The reweighted cell of row i and column j of the matrix m is zero: its
\* coefficient is, or its row factor ln(n / df) + plus is.
CellIsZero(m, i, j) ==
    \/ m.a[<<i, j>>] = 0
    \/ /\ m.idf # << >>
       /\ m.idf[i].plus = 0
       /\ m.idf[i].df = m.idf[i].n

\* C17: after reweighting, a reading attested by every primary witness has
\* weight zero in every cell, and every other reading has a non-zero
\* weight exactly in the cells that were non-zero before; the factor of a
\* reading is log(n / df), without an added 1, n being the number of
\* primary witnesses and df the number of them that attest the reading.
UniversalReadingsZeroed ==
    (pc = "done" /\ use_tfidf /\ tfidf_calls # << >>)
    => \A i \in 1..Len(readings) :
          /\ collation_matrix.idf[i] =
                 [n |-> Len(witnesses),
                  df |-> Cardinality({j \in 1..Len(witnesses) :
                             RawCell(readings[i], witnesses[j]) # 0}),
                  plus |-> 0]
          /\ \A j \in 1..Len(witnesses) :
                 CellIsZero(collation_matrix, i, j)
                 <=> (AttestedByAll(i)
                      \/ RawCell(readings[i], witnesses[j]) = 0)

\* Reweighted: a reading that every one of two or more primary witnesses
\* attests, and a reading that only some attest.
UniversalReadingsZeroedWitness ==
    /\ pc = "done" /\ use_tfidf /\ tfidf_calls # << >>
    /\ Len(witnesses) >= 2
    /\ \E i, k \in 1..Len(readings) :
          /\ AttestedByAll(i)
          /\ ~AttestedByAll(k)
          /\ \E j \in 1..Len(witnesses) : ~CellIsZero(collation_matrix, k, j)

(***************************************************************************)
(* C18 - C20.  What read does with a proportion out of range and with a    *)
(* malformed document.                                                     *)
(***************************************************************************)
\* read has started on a document.
ParsingBegun == pc \notin {"main", "idle", "exited"}

\* C18: a min_extant_proportion outside the closed interval from 0 to 1 is
\* rejected before any parsing begins, whether the parser is driven from
\* the command line or constructed and read directly.
ProportionOutOfRangeRejected ==
    ~(0 <= min_extant_proportion /\ min_extant_proportion <= 100)
    => ~ParsingBegun

\* C19: when read aborts on a malformed document no partial result is
\* exposed: after the failed call the readings list, the witness list and
\* the matrices are consistent with each other and hold nothing of the
\* partly parsed document (the parser had read no document before).
NoPartialResultExposed ==
    pc = "parse_raised"
    => /\ Len(readings) = NRows(collation_matrix)
       /\ Len(readings) = NRows(fragmentary_collation_matrix)
       /\ Len(witnesses) = NCols(collation_matrix)
       /\ Len(fragmentary_witnesses) = NCols(fragmentary_collation_matrix)
       /\ readings = << >>
       /\ witnesses = << >>

\* A required identifier is missing in the document: a unit has no
\* identifier, a reading has no number or label, or a segment has no verse
\* or no word offsets.
UnitLacksIdentifier(unit) ==
    IF grammar = "tei" THEN unit.xml_id = None /\ unit.n = None
    ELSE unit.verse = None \/ unit.wordsegs = None
ReadingLacksIdentifier(rdg) ==
    IF grammar = "tei" THEN rdg.n = None ELSE rdg.label = None
LacksIdentifier(doc) ==
    \E u \in 1..Len(doc) :
        \/ UnitLacksIdentifier(doc[u])
        \/ \E k \in 1..Len(doc[u].rdgs) : ReadingLacksIdentifier(doc[u].rdgs[k])

\* C20: a document in which a required identifier is missing makes read
\* abort: read never gets as far as building a matrix for it.
MissingIdentifierAborts ==
    (ParsingBegun /\ LacksIdentifier(xml)) => ~RawBuilt

(***************************************************************************)
(* read called again and again on one parser.                              *)
(***************************************************************************)
\* Most calls of read on one parser.
MaxReads == 2

\* The proportions of the parsers that read more than once.
AgainProportions == {95, 150}

\* A parser that other code has constructed and has not read with.
InitAgain ==
    /\ grammar \in {"tei", "vmr"}
    /\ min_extant_proportion \in AgainProportions
    /\ use_tfidf \in BOOLEAN
    /\ ambiguous_rdg_prefix = ReadPrefix
    /\ subwitness_suffixes = ReadSuffixes
    /\ trivial_reading_types = ReadTrivialTypes
    /\ ignored_reading_types = ReadIgnoredTypes
    /\ caller = "direct"
    /\ ParserConstructed
    /\ NoReadYet
    /\ NoNormCall

\* read has returned or raised: its local variables are gone, the parser's
\* fields stay as they are, and read may be called again.
ReadReturned ==
    /\ pc \in {"done", "tfidf_raised", "parse_raised"}
    /\ n_reads < MaxReads
    /\ pc' = "idle"
    /\ xml' = << >>
    /\ n_parsed' = 0
    /\ readings_by_witness' = << >>
    /\ app' = NoUnit
    /\ readings_by_witness_for_app' = << >>
    /\ raw' = [readings |-> << >>, witnesses |-> << >>,
               collation_matrix |-> Zeros(0, 0)]
    /\ col_sums' = << >>
    /\ tfidf_calls' = << >>
    /\ UNCHANGED n_reads
    /\ UNCHANGED <<config_vars, parser_vars, norm_vars>>

NextAgain ==
    \/ TeiReadEdge
    \/ VmrReadEdge
    \/ ReadParseUnit
    \/ ReadAssemble
    \/ Postprocess
    \/ ReadReturned

SpecAgain == InitAgain /\ [][NextAgain]_vars

(***************************************************************************)
(* C21.  Every read builds its result fresh.                               *)
(***************************************************************************)
\* What a newly constructed parser of the same configuration holds when it
\* has parsed the first k units of the document.
RECURSIVE FreshlyParsed(_, _)
FreshlyParsed(doc, k) ==
    IF k = 0
    THEN [readings |-> << >>, witnesses |-> << >>,
          readings_by_witness |-> << >>]
    ELSE LET before == FreshlyParsed(doc, k - 1)
             parsed == parse_unit(doc[k], before.readings)
             merged == merge_unit(
                           [witnesses |-> before.witnesses,
                            readings_by_witness |-> before.readings_by_witness],
                           parsed.readings_by_witness)
         IN  [readings |-> parsed.readings,
              witnesses |-> merged.witnesses,
              readings_by_witness |-> merged.readings_by_witness]

\* What a newly constructed parser of the same configuration yields for
\* the document.
FreshRead(doc) ==
    LET parsed == FreshlyParsed(doc, Len(doc))
        threshold == min_extant_for(Len(doc))
        post == postprocess(assemble(parsed.readings, parsed.witnesses,
                                     parsed.readings_by_witness),
                            parsed.witnesses, parsed.readings, threshold)
    IN  [readings |-> post.readings,
         witnesses |-> post.witnesses,
         fragmentary_witnesses |-> post.fragmentary_witnesses,
         min_extant |-> threshold,
         collation_matrix |-> post.collation_matrix,
         fragmentary_collation_matrix |-> post.fragmentary_collation_matrix]

\* What the parser holds.
Held ==
    [readings |-> readings,
     witnesses |-> witnesses,
     fragmentary_witnesses |-> fragmentary_witnesses,
     min_extant |-> min_extant,
     collation_matrix |-> collation_matrix,
     fragmentary_collation_matrix |-> fragmentary_collation_matrix]

\* C21: for any sequence of read calls on one parser, the readings, the
\* witnesses, the fragmentary witnesses, the threshold and both matrices
\* after a successful read of a document are those a newly constructed
\* parser of the same configuration yields for it; nothing is carried over
\* from the reads before.
ReadBuildsFresh ==
    pc = "done" => Held = FreshRead(xml)

\* A second read on the parser has succeeded, on a document of two units
\* that gives readings and witnesses.
ReadBuildsFreshWitness ==
    /\ pc = "done"
    /\ n_reads = 2
    /\ Len(xml) = 2
    /\ readings # << >>
    /\ witnesses # << >>

(***************************************************************************)
(* C22.  Ambiguous candidates and the order of the candidates.             *)
(***************************************************************************)
\* Candidate k of the unit has all the attributes its kind is read from.
WellFormed(unit, k) ==
    IF grammar = "tei" THEN unit.rdgs[k].n # None
    ELSE unit.rdgs[k].label # None /\ unit.rdgs[k].reading # None

\* Candidate k of the unit is Ambiguous and names the number of a
\* Substantive candidate that comes after it.
NamesLaterCandidate(unit, k) ==
    /\ WellFormed(unit, k)
    /\ IsAmbiguous(unit.rdgs[k])
    /\ \E i \in (k + 1)..Len(unit.rdgs) :
          /\ WellFormed(unit, i)
          /\ IsSubstantive(unit.rdgs[i])
          /\ NumberOf(unit.rdgs[i]) \in NamedBy(unit.rdgs[k])

\* C22: the resolution of an Ambiguous candidate does not depend on its
\* place in the unit: the labels it holds coefficients for, and hands to
\* its witnesses, are those of the Substantive candidates of the same unit
\* whose numbers it names, wherever in the unit they are, and never those
\* of candidates of another unit.
ResolutionIgnoresPosition ==
    UnitParsed
    => \A k \in 1..Len(app.rdgs) :
          (WellFormed(app, k) /\ IsAmbiguous(app.rdgs[k]))
          => /\ KeySet(EmittedBy(app, k)) = ResolvedLabels(app, app.rdgs[k])
             /\ \A w \in OnlySupporters(app, k) :
                    KeySet(DictGet(readings_by_witness_for_app, w))
                        = ResolvedLabels(app, app.rdgs[k])

\* The second unit of a document has been parsed: its Ambiguous candidate
\* comes first and names a, which only a candidate of the first unit
\* bears, and b, which the candidate after it bears; its witness holds a
\* coefficient for b alone.
ResolutionIgnoresPositionWitness ==
    /\ UnitParsed
    /\ n_parsed = 2
    /\ NamesLaterCandidate(app, 1)
    /\ \E i \in 1..Len(xml[1].rdgs) :
          /\ WellFormed(xml[1], i)
          /\ IsSubstantive(xml[1].rdgs[i])
          /\ NumberOf(xml[1].rdgs[i]) \in NamedBy(app.rdgs[1])
          /\ \A k \in 1..Len(app.rdgs) :
                 (WellFormed(app, k) /\ IsSubstantive(app.rdgs[k]))
                 => NumberOf(app.rdgs[k]) # NumberOf(xml[1].rdgs[i])
    /\ \E w \in OnlySupporters(app, 1) :
          /\ Len(DictGet(readings_by_witness_for_app, w)) = 1
          /\ readings_by_witness_for_app # << >>

(***************************************************************************)
(* C23.  The prefix of an ambiguous reading number.                        *)
(***************************************************************************)
\* The number without the prefix, removed once, from its start.
WithoutPrefix(number, prefix) ==
    IF StartsWith(number, prefix)
    THEN SubSeq(number, Len(prefix) + 1, Len(number))
    ELSE number

\* The raw labels l1, ..., lk that the number prefix l1/l2/.../lk denotes.
DenotedLabels(rdg) ==
    ItemSet(Split(WithoutPrefix(rdg.n[1], ambiguous_rdg_prefix), "/"))

\* The labels of the last Substantive candidates of the unit that bear one
\* of the numbers.
LabelsNumbered(unit, numbers) ==
    {LabelOf(unit, unit.rdgs[i]) : i \in
        {i \in 1..Len(unit.rdgs) :
            /\ WellFormed(unit, i)
            /\ IsSubstantive(unit.rdgs[i])
            /\ NumberOf(unit.rdgs[i]) \in numbers
            /\ \A k \in (i + 1)..Len(unit.rdgs) :
                   (WellFormed(unit, k) /\ IsSubstantive(unit.rdgs[k]))
                   => NumberOf(unit.rdgs[k]) # NumberOf(unit.rdgs[i])}}

\* C23: in the structured-markup grammar an Ambiguous candidate whose
\* number is the configured prefix followed by l1/l2/.../lk denotes exactly
\* the raw labels l1, ..., lk (only the prefix is removed, once, from the
\* start, and no character of a label), so it resolves to the Substantive
\* candidates of the unit that bear one of these labels as their number.
PrefixRemovedOnce ==
    (grammar = "tei" /\ UnitParsed)
    => \A k \in 1..Len(app.rdgs) :
          (WellFormed(app, k) /\ IsAmbiguous(app.rdgs[k])
              /\ StartsWith(app.rdgs[k].n[1], ambiguous_rdg_prefix))
          => /\ NamedBy(app.rdgs[k]) = DenotedLabels(app.rdgs[k])
             /\ KeySet(EmittedBy(app, k))
                    = LabelsNumbered(app, DenotedLabels(app.rdgs[k]))

(***************************************************************************)
(* C24.  The first token that is no manuscript siglum.                     *)
(***************************************************************************)
\* The place of the first token of the list that is no manuscript siglum;
\* one past the end of the list if all are.
FirstNonManuscript(tokens) ==
    LET others == {i \in 1..Len(tokens) : ~manuscript_witness_pattern(tokens[i])}
    IN  IF others = {} THEN Len(tokens) + 1
        ELSE CHOOSE i \in others : \A j \in others : i <= j

\* The base witnesses of the tokens of candidate k of the unit that come
\* before the first token that is no manuscript siglum; none if the parser
\* takes no support from the candidate.
SupportedBeforeStop(unit, k) ==
    IF /\ WellFormed(unit, k)
       /\ unit.rdgs[k] \in SupportingCandidates(unit)
    THEN {BaseSiglum(RawTokens(unit.rdgs[k])[i]) :
             i \in 1..(FirstNonManuscript(RawTokens(unit.rdgs[k])) - 1)}
    ELSE {}

\* C24: in the remote grammar the tokens of a candidate's support list are
\* taken in order up to the first token that is no manuscript siglum:
\* every manuscript token before it gets a witness-map entry with the
\* candidate's coefficients, and no token at or after it (manuscript
\* tokens included) gets an entry or a coefficient from the candidate.
StopsAtFirstNonManuscript ==
    (grammar = "vmr" /\ UnitParsed)
    => /\ KeySet(readings_by_witness_for_app) =
              UNION {SupportedBeforeStop(app, k) : k \in 1..Len(app.rdgs)}
       /\ \A k \in 1..Len(app.rdgs) :
              \A w \in SupportedBeforeStop(app, k) \cap OnlySupporters(app, k) :
                  DictGet(readings_by_witness_for_app, w) = EmittedBy(app, k)

\* A unit parsed whose candidate names a manuscript, then a token that is
\* no manuscript siglum, then another manuscript: only the first has an
\* entry.
StopsAtFirstNonManuscriptWitness ==
    /\ grammar = "vmr"
    /\ UnitParsed
    /\ Len(app.rdgs) = 1
    /\ WellFormed(app, 1)
    /\ app.rdgs[1].witnesses # None
    /\ LET tokens == RawTokens(app.rdgs[1])
           stop == FirstNonManuscript(tokens)
       IN  /\ 1 < stop
           /\ stop < Len(tokens)
           /\ manuscript_witness_pattern(tokens[Len(tokens)])
           /\ BaseSiglum(tokens[Len(tokens)]) # BaseSiglum(tokens[1])
           /\ KeySet(readings_by_witness_for_app) = {BaseSiglum(tokens[1])}

(***************************************************************************)
(* remove_ms_mss_suffixes on its own.                                      *)
(***************************************************************************)
\* Longest witness string drawn.
MaxWitStrLen == 5

\* The characters of the witness strings drawn: a letter and a digit to
\* begin a siglum with, the letters of ms and mss, and the blank.
WitStrAlphabet == {"X", "1", "m", "s", " "}

\* A remote parser and a witness string to call remove_ms_mss_suffixes on.
InitWitStr ==
    /\ grammar = "vmr"
    /\ min_extant_proportion \in ReadProportions
    /\ use_tfidf = FALSE
    /\ ambiguous_rdg_prefix = ReadPrefix
    /\ subwitness_suffixes = ReadSuffixes
    /\ trivial_reading_types = ReadTrivialTypes
    /\ ignored_reading_types = ReadIgnoredTypes
    /\ caller = "direct"
    /\ ParserConstructed
    /\ NoReadYet
    /\ token \in StringsUpTo(WitStrAlphabet, MaxWitStrLen)
    /\ normalized = << >>
    /\ norm_pc = "idle"

\* vmr_collation_parser.remove_ms_mss_suffixes on the witness string.
RemoveMsMssSuffixes ==
    /\ norm_pc = "idle"
    /\ normalized' = <<remove_ms_mss_suffixes(token)>>
    /\ norm_pc' = "reduced"
    /\ UNCHANGED <<token, config_vars, parser_vars, read_vars>>

NextWitStr == RemoveMsMssSuffixes

SpecWitStr == InitWitStr /\ [][NextWitStr]_vars

(***************************************************************************)
(* C25.  The ms and mss markers.                                           *)
(***************************************************************************)
\* A siglum as the specification wants it: a manuscript siglum as it is,
\* any other without an mss or ms at its end.
WithoutMsMss(siglum) ==
    IF manuscript_witness_pattern(siglum) THEN siglum
    ELSE IF EndsWith(siglum, <<"m", "s", "s">>)
    THEN SubSeq(siglum, 1, Len(siglum) - 3)
    ELSE IF EndsWith(siglum, <<"m", "s">>)
    THEN SubSeq(siglum, 1, Len(siglum) - 2)
    ELSE siglum

\* C25: in the remote grammar remove_ms_mss_suffixes returns the witness
\* string with an mss or ms at the end of every siglum that is no manuscript
\* siglum removed, and every manuscript siglum as it was.
MsMssRemoved ==
    norm_pc = "reduced"
    => Join(<<" ">>, SplitBlanks(normalized[1])) =
           Join(<<" ">>, [i \in 1..Len(SplitBlanks(token)) |->
                             WithoutMsMss(SplitBlanks(token)[i])])

(***************************************************************************)
(* C26.  Normalization terminates.                                         *)
(***************************************************************************)
\* None of the configured suffixes (the empty one apart, which ends every
\* string) is left at the end of the siglum.
NoSuffixLeft(siglum) ==
    \A i \in 1..Len(subwitness_suffixes) :
        subwitness_suffixes[i] # << >>
        => ~EndsWith(siglum, subwitness_suffixes[i])

\* C26: witness normalization terminates for every raw token and every
\* configured suffix list in both grammars, also for a list that holds the
\* empty string or suffixes that end one another, and what it returns has
\* none of the configured suffixes left at its end.
NormalizationTerminates ==
    /\ norm_pc # "hung"
    /\ \A i \in 1..Len(normalized) : NoSuffixLeft(normalized[i])

=============================================================================
